---- MODULE Spec2Model ----
(***************************************************************************)
(* Model of the procedural mesh synthesizer and binary glTF (GLB) container *)
(* encoder of src/lib/image-to-3d-service.ts: createPhotogrammetryModel     *)
(* (UV sphere path) and createCubeGLB (fixed cube path).                    *)
(*                                                                          *)
(* Bytes.  A byte of an integer-valued field (Uint32Array / Uint16Array     *)
(* element, DataView.setUint32, encoded JSON text, padding) is modelled by  *)
(* its value v in 0..255 (t = "u8").  The IEEE-754 bit pattern of a          *)
(* Float32Array element is not computed (the sphere coordinates are sines   *)
(* and cosines): byte k of the float x is the token with t = "f32", where x *)
(* names the expression that produced the value.  Two float bytes are equal *)
(* iff they are the same byte of the same expression.                       *)
(***************************************************************************)
EXTENDS Integers, Sequences, FiniteSets, TLC

VARIABLES
    shape,        \* which encoder is called: "sphere" or "cube"
    colors,       \* argument colors: number[][] of createPhotogrammetryModel
    imageCount,   \* argument imageCount of createPhotogrammetryModel
    pc,           \* "call" before the function has run, "returned" after
    out,          \* the locals and the returned buffer of the completed call
    padKind,      \* which padding code runs: "json" or "bin"
    padBuf,       \* the unpadded bytes handed to it: jsonBuf or binData
    padPc,        \* "call" before it has run, "padded" after
    padChunk,     \* the chunk it built: jsonChunk or binChunk
    files,        \* argument files of convertPhotogrammetry: one record per File
    outputFormat, \* argument outputFormat of convertPhotogrammetry
    cpPc,         \* where the call of convertPhotogrammetry stands
    progressLog,  \* the values passed to options.onProgress so far, in order
    genFormat,    \* argument format of generateModelFromPhotogrammetry
    fileIdx,      \* extractImageColors: position of the file the loop is at
    extracted,    \* extractImageColors: the local array colors
    glbArrayBuffer, \* generateModelFromPhotogrammetry: the local glbArrayBuffer
    settled,      \* the promise convertPhotogrammetry returned
    hookState,    \* useConversion: the ConversionState held by useState
    calls,        \* useConversion: the calls of convert3DTo2D / convert2DTo3D made so far
    revokedUrls,  \* the object URLs handed to URL.revokeObjectURL
    pairArgs,     \* two invocations of the core: the arguments of each
    pairResults,  \* two invocations of the core: the container each returned
    pvMounted,    \* ModelPreview: the component is mounted
    pvFile,       \* ModelPreview: the name of the file prop, "" for null
    pvState,      \* ModelPreview: objectUrl, fileType, isLoading, error
    pvCanvas,     \* ModelPreview: the Canvas is "none", "mounting" or "created"
    pvUrls,       \* ModelPreview: the number of object URLs created
    pvRevoked,    \* ModelPreview: the object URLs revoked by effect cleanups
    sheetPc,      \* render3DToSpriteSheet: "call", "loop" or "done"
    sheetAngleCount, \* render3DToSpriteSheet: angleCount
    sheetGrid,    \* render3DToSpriteSheet: gridCols and gridRows
    sheetI,       \* render3DToSpriteSheet: the loop variable i
    sheetCells    \* render3DToSpriteSheet: the cells drawn so far, in order

\* the state of a call of convertPhotogrammetry
convVars ==
    <<files, outputFormat, cpPc, progressLog, genFormat, fileIdx, extracted,
      glbArrayBuffer, settled>>

\* the state of the hook useConversion
hookVars == <<hookState, calls, revokedUrls>>

\* two invocations of createPhotogrammetryModel / createCubeGLB
pairVars == <<pairArgs, pairResults>>

\* the state of the component ModelPreview
previewVars == <<pvMounted, pvFile, pvState, pvCanvas, pvUrls, pvRevoked>>

\* the state of a call of render3DToSpriteSheet
sheetVars == <<sheetPc, sheetAngleCount, sheetGrid, sheetI, sheetCells>>

\* the state of the application around the core
appVars == <<hookVars, pairVars, previewVars, sheetVars>>

vars ==
    <<shape, colors, imageCount, pc, out, padKind, padBuf, padPc, padChunk, convVars,
      appVars>>

(***************************************************************************)
(* Bounds of the model.                                                    *)
(***************************************************************************)
MaxImageCount == 36
MaxColors == 2
MaxBufLen == 5

(***************************************************************************)
(* Float values and bytes.                                                 *)
(***************************************************************************)
\* a literal (or an exactly representable quotient) num/den
Lit(num, den) == [fn |-> "lit", p |-> <<num, den, 0, 0>>]

\* a coordinate computed by generateUVSphere for ring i of rings, sector j of sectors
Coord(axis, rings, i, sectors, j) == [fn |-> axis, p |-> <<rings, i, sectors, j>>]

\* the x field of a byte that is no float byte
NoFloat == [fn |-> "none", p |-> <<0, 0, 0, 0>>]

\* the byte with the integer value n
U8(n) == [t |-> "u8", v |-> n, k |-> 0, x |-> NoFloat]

\* byte k (0..3) of the 32-bit float x
F32Byte(x, k) == [t |-> "f32", v |-> 0, k |-> k, x |-> x]

\* new Uint8Array(float32Array.buffer): 4 bytes per element, in element order
Float32Bytes(arr) ==
    [b \in 1..(4 * Len(arr)) |-> F32Byte(arr[((b - 1) \div 4) + 1], (b - 1) % 4)]

\* byte k (0 = least significant) of the unsigned integer n.  Every 32-bit
\* value the encoders store (lengths, indices, tags) is below 2^31, so storing
\* it in a Uint32 leaves it unchanged
ByteOf(n, k) == (n \div (256 ^ k)) % 256

\* new Uint8Array(uint32Array.buffer): little-endian, 4 bytes per element
Uint32Bytes(arr) ==
    [b \in 1..(4 * Len(arr)) |-> U8(ByteOf(arr[((b - 1) \div 4) + 1], (b - 1) % 4))]

\* new Uint8Array(uint16Array.buffer): little-endian, 2 bytes per element
Uint16Bytes(arr) ==
    [b \in 1..(2 * Len(arr)) |-> U8(ByteOf(arr[((b - 1) \div 2) + 1] % 65536, (b - 1) % 2))]

\* DataView.setUint32(offset, n, true): the four little-endian bytes of n
SetUint32LE(n) == [b \in 1..4 |-> U8(ByteOf(n, b - 1))]

\* DataView.getUint32(offset, true) on a byte sequence (offset counted from 0);
\* -1 when one of the four bytes is not an integer byte
GetUint32LE(bytes, offset) ==
    IF \A b \in 1..4 : bytes[offset + b].t = "u8"
    THEN bytes[offset + 1].v + 256 * bytes[offset + 2].v
         + 65536 * bytes[offset + 3].v + 16777216 * bytes[offset + 4].v
    ELSE -1

\* bytes[from, from + len) with from counted from 0, as Uint8Array.subarray
Slice(bytes, from, len) == SubSeq(bytes, from + 1, from + len)

(***************************************************************************)
(* generateUVSphere (image-to-3d-service.ts:348-398).                      *)
(***************************************************************************)
\* variant of RingVertices whose loop stops at j < sectors: the seam vertex
\* of each ring is missing
RECURSIVE RingVerticesNoSeam(_, _, _, _)
RingVerticesNoSeam(rings, sectors, i, j) ==
    IF j >= sectors THEN <<>>
    ELSE <<Coord("x", rings, i, sectors, j),
           Coord("y", rings, i, sectors, j),
           Coord("z", rings, i, 0, 0)>>
         \o RingVerticesNoSeam(rings, sectors, i, j + 1)

\* the inner loop `for (let j = 0; j <= sectors; j++)` of the vertex loop:
\* pushes x, y, z for the sectors j..sectors of ring i
RECURSIVE RingVertices(_, _, _, _)
RingVertices(rings, sectors, i, j) ==
    IF j > sectors THEN <<>>
    ELSE <<Coord("x", rings, i, sectors, j),
           Coord("y", rings, i, sectors, j),
           Coord("z", rings, i, 0, 0)>>
         \o RingVertices(rings, sectors, i, j + 1)

\* the outer loop `for (let i = 0; i <= rings; i++)`
RECURSIVE SphereVertices(_, _, _)
SphereVertices(rings, sectors, i) ==
    IF i > rings THEN <<>>
    ELSE RingVertices(rings, sectors, i, 0) \o SphereVertices(rings, sectors, i + 1)

\* variant of QuadIndices with the two pole tests exchanged
QuadIndicesPolesSwapped(rings, sectors, i, j) ==
    LET k1 == i * (sectors + 1) + j
        k2 == k1 + sectors + 1
    IN  (IF i # rings - 1 THEN <<k1, k2, k1 + 1>> ELSE <<>>)
        \o (IF i # 0 THEN <<k1 + 1, k2, k2 + 1>> ELSE <<>>)

\* one iteration of the inner index loop: the triangles pushed for quad (i, j)
QuadIndices(rings, sectors, i, j) ==
    LET k1 == i * (sectors + 1) + j
        k2 == k1 + sectors + 1
    IN  (IF i # 0 THEN <<k1, k2, k1 + 1>> ELSE <<>>)
        \o (IF i # rings - 1 THEN <<k1 + 1, k2, k2 + 1>> ELSE <<>>)

\* `for (let j = 0; j < sectors; j++, k1++, k2++)`
RECURSIVE RingIndices(_, _, _, _)
RingIndices(rings, sectors, i, j) ==
    IF j >= sectors THEN <<>>
    ELSE QuadIndices(rings, sectors, i, j) \o RingIndices(rings, sectors, i, j + 1)

\* `for (let i = 0; i < rings; i++)`
RECURSIVE SphereIndices(_, _, _)
SphereIndices(rings, sectors, i) ==
    IF i >= rings THEN <<>>
    ELSE RingIndices(rings, sectors, i, 0) \o SphereIndices(rings, sectors, i + 1)

\* normals.push(x / radius, y / radius, z / radius) with radius = 1: dividing
\* by 1 is exact, so each normal component is the position component itself
generateUVSphere(subdivisions) ==
    LET rings == subdivisions
        sectors == subdivisions * 2
        verts == SphereVertices(rings, sectors, 0)
    IN  [vertices |-> verts,
         indices |-> SphereIndices(rings, sectors, 0),
         normals |-> verts]

(***************************************************************************)
(* generateVertexColors (image-to-3d-service.ts:403-421).                  *)
(***************************************************************************)
DefaultGray == <<Lit(4, 5), Lit(4, 5), Lit(4, 5)>>

\* variant of SampleColor that spreads the colors in blocks instead of cycling
SampleColorInBlocks(i, imageColors) ==
    IF Len(imageColors) = 0 THEN DefaultGray
    ELSE imageColors[((i \div 2) % Len(imageColors)) + 1]

\* imageColors[i % imageColors.length] || [0.8, 0.8, 0.8]: with an empty list
\* i % 0 is NaN, the lookup is undefined and the default is taken
SampleColor(i, imageColors) ==
    IF Len(imageColors) = 0 THEN DefaultGray
    ELSE imageColors[(i % Len(imageColors)) + 1]

generateVertexColors(vertexCount, imageColors) ==
    [c \in 1..(vertexCount * 4) |->
        LET i == (c - 1) \div 4
            ch == (c - 1) % 4
        IN  IF ch = 3 THEN Lit(1, 1) ELSE SampleColor(i, imageColors)[ch + 1]]

(***************************************************************************)
(* Scene description (glTF JSON) and its serialization.                    *)
(***************************************************************************)
\* the printable ASCII characters with codes 32 (space) to 95 (_), in code order
AsciiLow ==
    " !\"#$%&'(" \o ")*+,-./0123456789:;<=>?@ABCDEFGHIJKLMNOPQRSTUVWXYZ[\\]^_"

\* the printable ASCII characters with codes 97 (a) to 126 (~), in code order
AsciiHigh == "abcdefghijklmnopqrstuvwxyz{|}~"

\* the code of each of these characters
AsciiCode ==
    [c \in {SubSeq(AsciiLow, n, n) : n \in 1..Len(AsciiLow)}
            \cup {SubSeq(AsciiHigh, n, n) : n \in 1..Len(AsciiHigh)} |->
        IF \E n \in 1..Len(AsciiLow) : SubSeq(AsciiLow, n, n) = c
        THEN 31 + (CHOOSE n \in 1..Len(AsciiLow) : SubSeq(AsciiLow, n, n) = c)
        ELSE 96 + (CHOOSE n \in 1..Len(AsciiHigh) : SubSeq(AsciiHigh, n, n) = c)]

\* new TextEncoder().encode(str) for ASCII text: one byte per character
TextEncode(str) == [b \in 1..Len(str) |-> U8(AsciiCode[SubSeq(str, b, b)])]

\* JSON.stringify of an array of numbers given by their JSON text
RECURSIVE JoinText(_, _)
JoinText(texts, n) ==
    IF n > Len(texts) THEN ""
    ELSE (IF n > 1 THEN "," ELSE "") \o texts[n] \o JoinText(texts, n + 1)

StringifyNumbers(ints) == "[" \o JoinText([n \in 1..Len(ints) |-> ToString(ints[n])], 1) \o "]"

\* JSON.stringify of one accessor object, keys in insertion order
StringifyAccessor(a) ==
    "{\"bufferView\":" \o ToString(a.bufferView)
    \o ",\"componentType\":" \o ToString(a.componentType)
    \o ",\"count\":" \o ToString(a.count)
    \o ",\"type\":\"" \o a.type \o "\""
    \o (IF "min" \in DOMAIN a
        THEN ",\"min\":" \o StringifyNumbers(a.min) \o ",\"max\":" \o StringifyNumbers(a.max)
        ELSE "")
    \o "}"

\* JSON.stringify of one bufferView object
StringifyBufferView(bv) ==
    "{\"buffer\":" \o ToString(bv.buffer)
    \o ",\"byteOffset\":" \o ToString(bv.byteOffset)
    \o ",\"byteLength\":" \o ToString(bv.byteLength)
    \o ",\"target\":" \o ToString(bv.target) \o "}"

\* the attributes object: POSITION, NORMAL and, when present, COLOR_0
StringifyAttributes(at) ==
    "{\"POSITION\":" \o ToString(at.POSITION)
    \o ",\"NORMAL\":" \o ToString(at.NORMAL)
    \o (IF "COLOR_0" \in DOMAIN at THEN ",\"COLOR_0\":" \o ToString(at.COLOR_0) ELSE "")
    \o "}"

StringifyMaterial(m) ==
    "{\"name\":\"" \o m.name \o "\",\"pbrMetallicRoughness\":{\"baseColorFactor\":["
    \o JoinText(m.pbrMetallicRoughness.baseColorFactor, 1)
    \o "],\"metallicFactor\":" \o m.pbrMetallicRoughness.metallicFactor
    \o ",\"roughnessFactor\":" \o m.pbrMetallicRoughness.roughnessFactor \o "}}"

\* JSON.stringify(glTF): no whitespace, keys in the order the literal lists them
JSONStringify(g) ==
    LET prim == g.meshes[1].primitives[1]
    IN  "{\"asset\":{\"version\":\"" \o g.asset.version
        \o "\",\"generator\":\"" \o g.asset.generator \o "\"}"
        \o ",\"scene\":" \o ToString(g.scene)
        \o ",\"scenes\":[{\"nodes\":" \o StringifyNumbers(g.scenes[1].nodes) \o "}]"
        \o ",\"nodes\":[{\"mesh\":" \o ToString(g.nodes[1].mesh) \o "}]"
        \o ",\"meshes\":[{\"primitives\":[{\"attributes\":" \o StringifyAttributes(prim.attributes)
        \o ",\"indices\":" \o ToString(prim.indices)
        \o ",\"material\":" \o ToString(prim.material) \o "}]}]"
        \o ",\"materials\":[" \o StringifyMaterial(g.materials[1]) \o "]"
        \o ",\"accessors\":["
        \o JoinText([n \in 1..Len(g.accessors) |-> StringifyAccessor(g.accessors[n])], 1) \o "]"
        \o ",\"bufferViews\":["
        \o JoinText([n \in 1..Len(g.bufferViews) |-> StringifyBufferView(g.bufferViews[n])], 1) \o "]"
        \o ",\"buffers\":[{\"byteLength\":" \o ToString(g.buffers[1].byteLength) \o "}]}"

(***************************************************************************)
(* Container assembly, the code shared verbatim by both encoders           *)
(* (image-to-3d-service.ts:280-342 and 576-643).                           *)
(***************************************************************************)
\* new Uint8Array(n): n zero bytes
ZeroBytes(n) == [b \in 1..n |-> U8(0)]

\* target.set(part, pos): part copied over target from byte pos (counted from
\* 0); the bytes of target before and after the copy are kept
SetAt(target, part, pos) ==
    SubSeq(target, 1, pos) \o part \o SubSeq(target, pos + Len(part) + 1, Len(target))

\* variant of PaddingNeeded without the outer `% 4`: an aligned buffer gets
\* four padding bytes
PaddingNeededNoOuterMod(length) == 4 - (length % 4)

\* (4 - (length % 4)) % 4
PaddingNeeded(length) == (4 - (length % 4)) % 4

\* the chunk of length buf.length + padding: buf set at 0, then
\* chunk[buf.length + i] = fill for i < padding
PadChunk(buf, fill) ==
    LET padding == PaddingNeeded(Len(buf))
        chunk == SetAt(ZeroBytes(Len(buf) + padding), buf, 0)
    IN  SubSeq(chunk, 1, Len(buf)) \o [i \in 1..padding |-> U8(fill)]

\* jsonChunk: padded with spaces (0x20)
PadJSON(jsonBuf) == PadChunk(jsonBuf, 32)

\* binChunk: padded with zeros
PadBin(binData) == PadChunk(binData, 0)

\* const header = new ArrayBuffer(20)
HeaderSize == 20

\* variant of FileLength that counts a 12-byte header while 20 are emitted
FileLengthHeader12(jsonChunk, binChunk) == 12 + 8 + Len(jsonChunk) + 8 + Len(binChunk)

\* const fileLength = 20 + 8 + jsonChunk.length + 8 + binChunk.length
FileLength(jsonChunk, binChunk) == 20 + 8 + Len(jsonChunk) + 8 + Len(binChunk)

GLBMagic == 1179937895      \* 0x46546c47, "glTF"
GLBVersion == 2
JSONTag == 1313821514       \* 0x4e4f534a, "JSON"
BINTag == 5130562           \* 0x004e4942, "BIN\0"

\* the header buffer after the three setUint32 calls; the rest stays zero
BuildHeader(fileLength) ==
    SetAt(SetAt(SetAt(ZeroBytes(HeaderSize), SetUint32LE(GLBMagic), 0),
                SetUint32LE(GLBVersion), 4),
          SetUint32LE(fileLength), 8)

\* variant of BuildChunkHeader that writes the tag before the length
BuildChunkHeaderTagFirst(chunk, tag) ==
    SetAt(SetAt(ZeroBytes(8), SetUint32LE(tag), 0), SetUint32LE(Len(chunk)), 4)

\* an 8-byte chunk header: chunk length, then the type tag
BuildChunkHeader(chunk, tag) ==
    SetAt(SetAt(ZeroBytes(8), SetUint32LE(Len(chunk)), 0), SetUint32LE(tag), 4)

\* totalLength: the sum of the lengths of the five parts
TotalLength(headerBytes, jsonHeaderBytes, jsonChunk, binHeaderBytes, binChunk) ==
    Len(headerBytes) + Len(jsonHeaderBytes) + Len(jsonChunk)
    + Len(binHeaderBytes) + Len(binChunk)

\* glbFile: the five parts set one after the other from pos = 0
AssembleGLB(headerBytes, jsonHeaderBytes, jsonChunk, binHeaderBytes, binChunk) ==
    LET totalLength ==
            TotalLength(headerBytes, jsonHeaderBytes, jsonChunk, binHeaderBytes, binChunk)
        pos1 == Len(headerBytes)
        pos2 == pos1 + Len(jsonHeaderBytes)
        pos3 == pos2 + Len(jsonChunk)
        pos4 == pos3 + Len(binHeaderBytes)
        f0 == ZeroBytes(totalLength)
        f1 == SetAt(f0, headerBytes, 0)
        f2 == SetAt(f1, jsonHeaderBytes, pos1)
        f3 == SetAt(f2, jsonChunk, pos2)
        f4 == SetAt(f3, binHeaderBytes, pos3)
    IN  SetAt(f4, binChunk, pos4)

\* from the serialized JSON to the returned buffer, with the locals kept
EncodeContainer(glTF, binData) ==
    LET jsonStr == JSONStringify(glTF)
        jsonBuf == TextEncode(jsonStr)
        jsonChunk == PadJSON(jsonBuf)
        binChunk == PadBin(binData)
        fileLength == FileLength(jsonChunk, binChunk)
        header == BuildHeader(fileLength)
        jsonChunkHeader == BuildChunkHeader(jsonChunk, JSONTag)
        binChunkHeader == BuildChunkHeader(binChunk, BINTag)
    IN  [jsonBuf |-> jsonBuf,
         jsonChunk |-> jsonChunk,
         binChunk |-> binChunk,
         fileLength |-> fileLength,
         glbFile |-> AssembleGLB(header, jsonChunkHeader, jsonChunk, binChunkHeader, binChunk)]

(***************************************************************************)
(* createPhotogrammetryModel (image-to-3d-service.ts:163-343).             *)
(***************************************************************************)
Min(a, b) == IF a < b THEN a ELSE b

\* variant of Subdivisions without the upper clamp
SubdivisionsUnclamped(n) == 2 + (n \div 5)

\* Math.min(8, 2 + Math.floor(imageCount / 5))
Subdivisions(n) == Min(8, 2 + (n \div 5))

\* binData: the four byte arrays set at a running offset, in the order of the
\* binData.set calls
PackSphere(vertexBin, indicesBin, normalsBin, colorBin) ==
    LET binDataLength == Len(vertexBin) + Len(indicesBin) + Len(normalsBin) + Len(colorBin)
        offset1 == Len(vertexBin)
        offset2 == offset1 + Len(indicesBin)
        offset3 == offset2 + Len(normalsBin)
        b0 == ZeroBytes(binDataLength)
        b1 == SetAt(b0, vertexBin, 0)
        b2 == SetAt(b1, indicesBin, offset1)
        b3 == SetAt(b2, normalsBin, offset2)
    IN  SetAt(b3, colorBin, offset3)

\* variant of SphereAccessors that counts the colors as three floats each
SphereAccessorsColorVec3(vertices, normals, vertexColors, indices) ==
    << [bufferView |-> 0, componentType |-> 5126, count |-> Len(vertices) \div 3,
        type |-> "VEC3", min |-> <<-1, -1, -1>>, max |-> <<1, 1, 1>>],
       [bufferView |-> 1, componentType |-> 5126, count |-> Len(normals) \div 3,
        type |-> "VEC3"],
       [bufferView |-> 2, componentType |-> 5126, count |-> Len(vertexColors) \div 3,
        type |-> "VEC4"],
       [bufferView |-> 3, componentType |-> 5125, count |-> Len(indices),
        type |-> "SCALAR"] >>

SphereAccessors(vertices, normals, vertexColors, indices) ==
    << [bufferView |-> 0, componentType |-> 5126, count |-> Len(vertices) \div 3,
        type |-> "VEC3", min |-> <<-1, -1, -1>>, max |-> <<1, 1, 1>>],
       [bufferView |-> 1, componentType |-> 5126, count |-> Len(normals) \div 3,
        type |-> "VEC3"],
       [bufferView |-> 2, componentType |-> 5126, count |-> Len(vertexColors) \div 4,
        type |-> "VEC4"],
       [bufferView |-> 3, componentType |-> 5125, count |-> Len(indices),
        type |-> "SCALAR"] >>

\* variant of SphereBufferViews whose last offset leaves out the color bytes
SphereBufferViewsShortOffset(vertexBin, normalsBin, colorBin, indicesBin) ==
    << [buffer |-> 0, byteOffset |-> 0,
        byteLength |-> Len(vertexBin), target |-> 34962],
       [buffer |-> 0, byteOffset |-> Len(vertexBin),
        byteLength |-> Len(normalsBin), target |-> 34962],
       [buffer |-> 0, byteOffset |-> Len(vertexBin) + Len(normalsBin),
        byteLength |-> Len(colorBin), target |-> 34962],
       [buffer |-> 0, byteOffset |-> Len(vertexBin) + Len(normalsBin),
        byteLength |-> Len(indicesBin), target |-> 34963] >>

SphereBufferViews(vertexBin, normalsBin, colorBin, indicesBin) ==
    << [buffer |-> 0, byteOffset |-> 0,
        byteLength |-> Len(vertexBin), target |-> 34962],
       [buffer |-> 0, byteOffset |-> Len(vertexBin),
        byteLength |-> Len(normalsBin), target |-> 34962],
       [buffer |-> 0, byteOffset |-> Len(vertexBin) + Len(normalsBin),
        byteLength |-> Len(colorBin), target |-> 34962],
       [buffer |-> 0, byteOffset |-> Len(vertexBin) + Len(normalsBin) + Len(colorBin),
        byteLength |-> Len(indicesBin), target |-> 34963] >>

\* buffers: [{ byteLength: binData.length }]
Buffers(binData) == << [byteLength |-> Len(binData)] >>

SphereMaterial ==
    [name |-> "Material",
     pbrMetallicRoughness |->
        [baseColorFactor |-> <<"1", "1", "1", "1">>,
         metallicFactor |-> "0.3", roughnessFactor |-> "0.7"]]

createPhotogrammetryModel(cols, n) ==
    LET subdivisions == Subdivisions(n)
        mesh == generateUVSphere(subdivisions)
        vertices == mesh.vertices
        indices == mesh.indices
        normals == mesh.normals
        vertexColors == generateVertexColors(Len(vertices), cols)
        vertexBin == Float32Bytes(vertices)
        indicesBin == Uint32Bytes(indices)
        normalsBin == Float32Bytes(normals)
        colorBin == Float32Bytes(vertexColors)
        binData == PackSphere(vertexBin, indicesBin, normalsBin, colorBin)
        glTF ==
            [asset |-> [version |-> "2.0", generator |-> "Dimensionally Photogrammetry"],
             scene |-> 0,
             scenes |-> << [nodes |-> <<0>>] >>,
             nodes |-> << [mesh |-> 0] >>,
             meshes |-> << [primitives |->
                 << [attributes |-> [POSITION |-> 0, NORMAL |-> 1, COLOR_0 |-> 2],
                     indices |-> 3, material |-> 0] >>] >>,
             materials |-> << SphereMaterial >>,
             accessors |-> SphereAccessors(vertices, normals, vertexColors, indices),
             bufferViews |-> SphereBufferViews(vertexBin, normalsBin, colorBin, indicesBin),
             buffers |-> Buffers(binData)]
    IN  [subdivisions |-> subdivisions,
         vertices |-> vertices, indices |-> indices, normals |-> normals,
         vertexColors |-> vertexColors,
         binData |-> binData, glTF |-> glTF]
        @@ EncodeContainer(glTF, binData)

(***************************************************************************)
(* createCubeGLB (image-to-3d-service.ts:457-644).                         *)
(***************************************************************************)
\* the components of the three literal tables, as written
CubeVertexTable ==
    <<-1, -1, -1,  1, -1, -1,  1, 1, -1,  -1, 1, -1,
      -1, -1, 1,  1, -1, 1,  1, 1, 1,  -1, 1, 1>>

CubeIndexTable ==
    <<0, 1, 2, 2, 3, 0,  5, 4, 7, 7, 6, 5,  4, 5, 1, 1, 0, 4,
      3, 2, 6, 6, 7, 3,  4, 0, 3, 3, 7, 4,  1, 5, 6, 6, 2, 1>>

CubeNormalTable ==
    <<0, 0, -1, 0, 0, -1, 0, 0, -1, 0, 0, -1, 0, 0, 1, 0, 0, 1, 0, 0, 1, 0, 0,
      1, 0, -1, 0, 0, -1, 0, 0, -1, 0, 0, -1, 0, 0, 1, 0, 0, 1, 0, 0, 1, 0, 0,
      1, 0, -1, 0, 0, -1, 0, 0, -1, 0, 0, -1, 0, 1, 0, 1, 0, 1, 0, 1, 0, 1, 0,
      1, 0>>

\* new Float32Array([...]) of integer literals
Float32Of(table) == [n \in 1..Len(table) |-> Lit(table[n], 1)]

\* binData.set(vertexBin, 0); binData.set(indicesBin, vertexBin.length);
\* binData.set(normalsBin, vertexBin.length + indicesBin.length)
PackCube(vertexBin, indicesBin, normalsBin) ==
    LET binDataLength == Len(vertexBin) + Len(indicesBin) + Len(normalsBin)
        b0 == ZeroBytes(binDataLength)
        b1 == SetAt(b0, vertexBin, 0)
        b2 == SetAt(b1, indicesBin, Len(vertexBin))
    IN  SetAt(b2, normalsBin, Len(vertexBin) + Len(indicesBin))

CubeAccessors ==
    << [bufferView |-> 0, componentType |-> 5126, count |-> 8,
        type |-> "VEC3", min |-> <<-1, -1, -1>>, max |-> <<1, 1, 1>>],
       [bufferView |-> 1, componentType |-> 5125, count |-> 36, type |-> "SCALAR"],
       [bufferView |-> 2, componentType |-> 5126, count |-> 24, type |-> "VEC3"] >>

\* variant of CubeBufferViews that marks the index view as vertex data
CubeBufferViewsIndexAsArray(vertexBin, indicesBin, normalsBin) ==
    << [buffer |-> 0, byteOffset |-> 0,
        byteLength |-> Len(vertexBin), target |-> 34962],
       [buffer |-> 0, byteOffset |-> Len(vertexBin),
        byteLength |-> Len(indicesBin), target |-> 34962],
       [buffer |-> 0, byteOffset |-> Len(vertexBin) + Len(indicesBin),
        byteLength |-> Len(normalsBin), target |-> 34962] >>

CubeBufferViews(vertexBin, indicesBin, normalsBin) ==
    << [buffer |-> 0, byteOffset |-> 0,
        byteLength |-> Len(vertexBin), target |-> 34962],
       [buffer |-> 0, byteOffset |-> Len(vertexBin),
        byteLength |-> Len(indicesBin), target |-> 34963],
       [buffer |-> 0, byteOffset |-> Len(vertexBin) + Len(indicesBin),
        byteLength |-> Len(normalsBin), target |-> 34962] >>

CubeMaterial ==
    [name |-> "Material",
     pbrMetallicRoughness |->
        [baseColorFactor |-> <<"0.8", "0.8", "0.8", "1">>,
         metallicFactor |-> "0.5", roughnessFactor |-> "0.5"]]

createCubeGLB ==
    LET vertices == Float32Of(CubeVertexTable)
        indices == CubeIndexTable
        normals == Float32Of(CubeNormalTable)
        vertexBin == Float32Bytes(vertices)
        indicesBin == Uint16Bytes(indices)
        normalsBin == Float32Bytes(normals)
        binData == PackCube(vertexBin, indicesBin, normalsBin)
        glTF ==
            [asset |-> [version |-> "2.0", generator |-> "Dimensionally"],
             scene |-> 0,
             scenes |-> << [nodes |-> <<0>>] >>,
             nodes |-> << [mesh |-> 0] >>,
             meshes |-> << [primitives |->
                 << [attributes |-> [POSITION |-> 0, NORMAL |-> 2],
                     indices |-> 1, material |-> 0] >>] >>,
             materials |-> << CubeMaterial >>,
             accessors |-> CubeAccessors,
             bufferViews |-> CubeBufferViews(vertexBin, indicesBin, normalsBin),
             buffers |-> Buffers(binData)]
    IN  [vertices |-> vertices, indices |-> indices, normals |-> normals,
         binData |-> binData, glTF |-> glTF]
        @@ EncodeContainer(glTF, binData)

(***************************************************************************)
(* The calls.  Init draws the arguments; one action per encoder applies it. *)
(***************************************************************************)
\* sampled colors: red, and the gray that extractImageColors falls back to
Palette == { <<Lit(1, 1), Lit(0, 1), Lit(0, 1)>>, DefaultGray }

ColorLists == UNION {[1..n -> Palette] : n \in 0..MaxColors}

NoResult == [glbFile |-> <<>>]

\* the padding code is not run on its own under Spec
PadIdle == padKind = "json" /\ padBuf = <<>> /\ padPc = "idle" /\ padChunk = <<>>

\* a Blob that is no Blob of the program: the value slot of null
NoBlob == [type |-> "", data |-> <<>>]

\* a File that is no File of the program: the value slot of null and undefined
NoFile == [name |-> "", type |-> "", data |-> <<>>]

\* the values of a field of ConversionState: null, undefined (the field was
\* left out of the object handed to setState), or a value
NullOf(none) == [is |-> "null", v |-> none]
UndefinedOf(none) == [is |-> "undefined", v |-> none]
Some(value) == [is |-> "value", v |-> value]

\* use-conversion.ts:19-27: the initial ConversionState
InitialState ==
    [isConverting |-> FALSE, progress |-> 0, error |-> NullOf(""),
     result |-> NullOf(NoBlob), resultUrl |-> NullOf(""),
     resultFile |-> NullOf(NoFile), resultFormat |-> NullOf("")]

\* the hook is mounted and none of its functions has been called
HookIdle == hookState = InitialState /\ calls = <<>> /\ revokedUrls = {}

\* no pair of invocations is made
PairIdle == pairArgs = <<>> /\ pairResults = <<>>

\* the ConversionState-like state ModelPreview starts with (part_001:115-118)
PreviewInitialState ==
    [objectUrl |-> NullOf(""), fileType |-> "", isLoading |-> TRUE, error |-> NullOf("")]

\* ModelPreview is not mounted
PreviewIdle ==
    /\ pvMounted = FALSE /\ pvFile = "" /\ pvState = PreviewInitialState
    /\ pvCanvas = "none" /\ pvUrls = 0 /\ pvRevoked = {}

\* render3DToSpriteSheet is not called
SheetIdle ==
    /\ sheetPc = "idle" /\ sheetAngleCount = 0 /\ sheetGrid = [cols |-> 0, rows |-> 0]
    /\ sheetI = 0 /\ sheetCells = <<>>

\* the application around the core is not run under Spec, PadSpec and ConvSpec
AppIdle == HookIdle /\ PairIdle /\ PreviewIdle /\ SheetIdle

\* a promise that has not settled
Pending == [state |-> "pending", message |-> "", blob |-> [type |-> "", data |-> <<>>]]

\* convertPhotogrammetry is not called under Spec
ConvIdle ==
    /\ files = <<>> /\ outputFormat = "GLB" /\ cpPc = "idle" /\ progressLog = <<>>
    /\ genFormat = "" /\ fileIdx = 0 /\ extracted = <<>> /\ glbArrayBuffer = <<>>
    /\ settled = Pending

Init ==
    /\ PadIdle
    /\ ConvIdle
    /\ AppIdle
    /\ shape \in {"sphere", "cube"}
    /\ colors \in (IF shape = "sphere" THEN ColorLists ELSE {<<>>})
    /\ imageCount \in (IF shape = "sphere" THEN 0..MaxImageCount ELSE {0})
    /\ pc = "call"
    /\ out = NoResult

CallCreatePhotogrammetryModel ==
    /\ pc = "call"
    /\ shape = "sphere"
    /\ out' = createPhotogrammetryModel(colors, imageCount)
    /\ pc' = "returned"
    /\ UNCHANGED <<shape, colors, imageCount, padKind, padBuf, padPc, padChunk, convVars, appVars>>

CallCreateCubeGLB ==
    /\ pc = "call"
    /\ shape = "cube"
    /\ out' = createCubeGLB
    /\ pc' = "returned"
    /\ UNCHANGED <<shape, colors, imageCount, padKind, padBuf, padPc, padChunk, convVars, appVars>>

Next == CallCreatePhotogrammetryModel \/ CallCreateCubeGLB

Spec == Init /\ [][Next]_vars

(***************************************************************************)
(* The padding code on its own (image-to-3d-service.ts:280-294, 576-592):  *)
(* the buffer is drawn from every byte sequence of up to MaxBufLen bytes   *)
(* over PadBytes, so that every residue of the length modulo 4 occurs.     *)
(***************************************************************************)
\* "{", space and zero: a text byte and the two fill bytes
PadBytes == {U8(123), U8(32), U8(0)}

PadBuffers == UNION {[1..n -> PadBytes] : n \in 0..MaxBufLen}

PadInit ==
    /\ ConvIdle
    /\ AppIdle
    /\ shape = "cube" /\ colors = <<>> /\ imageCount = 0 /\ pc = "idle" /\ out = NoResult
    /\ padKind \in {"json", "bin"}
    /\ padBuf \in PadBuffers
    /\ padPc = "call"
    /\ padChunk = <<>>

CallPadJSON ==
    /\ padPc = "call"
    /\ padKind = "json"
    /\ padChunk' = PadJSON(padBuf)
    /\ padPc' = "padded"
    /\ UNCHANGED <<shape, colors, imageCount, pc, out, padKind, padBuf, convVars, appVars>>

CallPadBin ==
    /\ padPc = "call"
    /\ padKind = "bin"
    /\ padChunk' = PadBin(padBuf)
    /\ padPc' = "padded"
    /\ UNCHANGED <<shape, colors, imageCount, pc, out, padKind, padBuf, convVars, appVars>>

PadNext == CallPadJSON \/ CallPadBin

PadSpec == PadInit /\ [][PadNext]_vars

(***************************************************************************)
(* convertPhotogrammetry (image-to-3d-service.ts:38-157) and the export it *)
(* ends in (model-format-converter.ts:21-204).  An action is one           *)
(* synchronous run of the code, from one await to the next.  What the      *)
(* browser does with a file (the image decodes, the image fails to load,   *)
(* the canvas gives no 2D context) is part of the input; whether the       *)
(* exporter succeeds is decided when the export settles.  The bytes a      *)
(* Three.js exporter writes are not computed: they are one token naming    *)
(* the exporter.                                                           *)
(***************************************************************************)
MaxFiles == 9

\* image-to-3d-service.ts:47: files.length < 8
MinImages == 8

\* the pixel drawImage leaves in the 1x1 canvas, as <<r, g, b>> of 0..255
Pixels == << <<255, 0, 0>>, <<51, 102, 204>> >>

\* file i of a list in which the file at badAt is no image and the browser
\* fails on the file at faultAt (0: no such file)
FileAt(i, badAt, faultAt, fault, phase) ==
    [type |-> IF i = badAt THEN "text/plain" ELSE "image/png",
     decoding |-> IF i = faultAt THEN fault ELSE "decoded",
     pixel |-> Pixels[((i + phase) % 2) + 1]]

FileListsOfLength(n) ==
    { [i \in 1..n |-> FileAt(i, badAt, faultAt, fault, phase)] :
        badAt \in 0..n, faultAt \in 0..n,
        fault \in {"loadError", "noContext"}, phase \in 0..1 }

FileLists == UNION { FileListsOfLength(n) : n \in 0..MaxFiles }

InputFormats == {"GLB", "glb", "Gltf", "OBJ", "stl", "fbx", "USDZ", "dae", "PLY", "x3d"}

\* String.prototype.startsWith
StartsWith(s, prefix) ==
    Len(s) >= Len(prefix) /\ SubSeq(s, 1, Len(prefix)) = prefix

LowerCase == "abcdefghijklmnopqrstuvwxyz"
UpperCase == "ABCDEFGHIJKLMNOPQRSTUVWXYZ"

\* the upper-case form of the one-character string c
UpperChar(c) ==
    LET ks == {k \in 1..Len(LowerCase) : SubSeq(LowerCase, k, k) = c}
    IN  IF ks = {} THEN c
        ELSE LET k == CHOOSE k \in ks : TRUE IN SubSeq(UpperCase, k, k)

RECURSIVE UpperFrom(_, _)
UpperFrom(s, i) ==
    IF i > Len(s) THEN "" ELSE UpperChar(SubSeq(s, i, i)) \o UpperFrom(s, i + 1)

\* String.prototype.toUpperCase on ASCII text
ToUpperCase(s) == UpperFrom(s, 1)

SupportedFormats == <<"GLB", "GLTF", "OBJ", "STL", "FBX", "USDZ", "DAE">>

\* Array.prototype.includes
Includes(arr, x) == \E i \in DOMAIN arr : arr[i] = x

\* variant of ValidationError that checks the number of files only
ValidationErrorCountOnly(fs) ==
    IF Len(fs) < MinImages
    THEN "Please provide at least 8 images for photogrammetry"
    ELSE ""

\* the first failing check of the validation, "" when the files pass
ValidationError(fs) ==
    IF Len(fs) < MinImages
    THEN "Please provide at least 8 images for photogrammetry"
    ELSE IF ~ (\A i \in DOMAIN fs : StartsWith(fs[i].type, "image/"))
    THEN "All files must be valid image files"
    ELSE ""

\* the Error the catch block of convertPhotogrammetry throws
WrapError(message) == "Photogrammetry conversion failed: " \o message

\* variant of GenerateFormat that passes an unsupported format on
GenerateFormatNoFallback(fmt) == ToUpperCase(fmt)

\* the format convertPhotogrammetry hands to generateModelFromPhotogrammetry
GenerateFormat(fmt) ==
    IF Includes(SupportedFormats, ToUpperCase(fmt)) THEN ToUpperCase(fmt) ELSE "GLB"

\* the values onProgress has received when extractImageColors is called: 40
\* is reported on the path of a supported format only
StartProgress(fmt) ==
    IF Includes(SupportedFormats, ToUpperCase(fmt))
    THEN <<10, 20, 40, 50>>
    ELSE <<10, 20, 50>>

\* the colors.push of a decoded image: [r / 255, g / 255, b / 255]
PixelColor(pixel) == <<Lit(pixel[1], 255), Lit(pixel[2], 255), Lit(pixel[3], 255)>>

\* the colors.push of the catch block: [0.8, 0.8, 0.8]
FallbackColor == <<Lit(4, 5), Lit(4, 5), Lit(4, 5)>>

\* the array colors after the loop body has run for the file
PushColor(cols, file) ==
    CASE file.decoding = "decoded" -> Append(cols, PixelColor(file.pixel))
      [] file.decoding = "loadError" -> Append(cols, FallbackColor)
      [] file.decoding = "noContext" -> cols

\* the bytes a Three.js exporter wrote: one token naming the exporter
ExporterBytes(exporter) ==
    << [t |-> "lib", v |-> 0, k |-> 0, x |-> [fn |-> exporter, p |-> <<0, 0, 0, 0>>]] >>

\* what an export function of model-format-converter.ts ends in: the Blob it
\* resolves with, or the message of the Error it rejects with
Exporter(name, exporter, mime) ==
    [throws |-> FALSE, message |-> "",
     blob |-> [type |-> mime, data |-> ExporterBytes(exporter)],
     error |-> name \o " export failed: exporter error"]

exportAsGLB == Exporter("GLB", "GLTFExporter binary", "model/gltf-binary")
exportAsGLTF == Exporter("GLTF", "GLTFExporter json", "application/json")
exportAsOBJ == Exporter("OBJ", "OBJExporter", "text/plain")
exportAsSTL == Exporter("STL", "STLExporter", "model/stl")
exportAsDAE == Exporter("DAE", "OBJExporter as DAE", "model/vnd.collada+xml")

\* variant of exportScene that exports OBJ as GLB, as it does FBX and USDZ
exportSceneObjAsGLB(format) ==
    CASE format = "GLB" -> exportAsGLB
      [] format = "GLTF" -> exportAsGLTF
      [] format = "STL" -> exportAsSTL
      [] format = "DAE" -> exportAsDAE
      [] format \in {"FBX", "USDZ", "OBJ"} -> exportAsGLB
      [] OTHER -> [throws |-> TRUE, message |-> "Unsupported format: " \o format,
                   blob |-> [type |-> "", data |-> <<>>], error |-> ""]

\* the switch of exportScene
exportScene(format) ==
    CASE format = "GLB" -> exportAsGLB
      [] format = "GLTF" -> exportAsGLTF
      [] format = "OBJ" -> exportAsOBJ
      [] format = "STL" -> exportAsSTL
      [] format = "DAE" -> exportAsDAE
      [] format \in {"FBX", "USDZ"} -> exportAsGLB
      [] OTHER -> [throws |-> TRUE, message |-> "Unsupported format: " \o format,
                   blob |-> [type |-> "", data |-> <<>>], error |-> ""]

\* the Error the catch block of exportSceneToFormat throws
ExportError(format, message) == "Export to " \o format \o " failed: " \o message

Rejected(message) ==
    [state |-> "rejected", message |-> message, blob |-> [type |-> "", data |-> <<>>]]

Resolved(blob) == [state |-> "resolved", message |-> "", blob |-> blob]

\* the encoders and the padding code are not run on their own under ConvSpec
coreVars == <<shape, colors, imageCount, pc, out, padKind, padBuf, padPc, padChunk>>

ConvInit ==
    /\ PadIdle
    /\ AppIdle
    /\ shape = "cube" /\ colors = <<>> /\ imageCount = 0 /\ pc = "idle" /\ out = NoResult
    /\ files \in FileLists
    /\ outputFormat \in InputFormats
    /\ cpPc = "call"
    /\ progressLog = <<>>
    /\ genFormat = ""
    /\ fileIdx = 0
    /\ extracted = <<>>
    /\ glbArrayBuffer = <<>>
    /\ settled = Pending

\* convertPhotogrammetry up to the first await: the validation, the choice of
\* the format, and generateModelFromPhotogrammetry up to extractImageColors.
\* An Error thrown by the validation is caught and wrapped
CallConvertPhotogrammetry ==
    /\ cpPc = "call"
    /\ IF ValidationError(files) # ""
       THEN /\ progressLog' = <<10>>
            /\ settled' = Rejected(WrapError(ValidationError(files)))
            /\ cpPc' = "done"
            /\ UNCHANGED <<genFormat, fileIdx>>
       ELSE /\ progressLog' = StartProgress(outputFormat)
            /\ genFormat' = GenerateFormat(outputFormat)
            /\ fileIdx' = 1
            /\ cpPc' = "extract"
            /\ UNCHANGED settled
    /\ UNCHANGED <<files, outputFormat, extracted, glbArrayBuffer, coreVars, appVars>>

\* extractImageColors: the loop body for one file
ExtractImageColor ==
    /\ cpPc = "extract"
    /\ extracted' = PushColor(extracted, files[fileIdx])
    /\ fileIdx' = fileIdx + 1
    /\ cpPc' = IF fileIdx = Len(files) THEN "generate" ELSE "extract"
    /\ UNCHANGED <<files, outputFormat, progressLog, genFormat, glbArrayBuffer,
                   settled, coreVars, appVars>>

\* generateModelFromPhotogrammetry after extractImageColors has returned, up
\* to the await in exportSceneToFormat.  The rejection of
\* generateModelFromPhotogrammetry settles the promise convertPhotogrammetry
\* returned: its catch block has been left by the return statement
GenerateModel ==
    /\ cpPc = "generate"
    /\ glbArrayBuffer' = createPhotogrammetryModel(extracted, Len(files)).glbFile
    /\ progressLog' = progressLog \o <<70, 85, 50>>
    /\ IF exportScene(genFormat).throws
       THEN /\ settled' = Rejected(ExportError(genFormat, exportScene(genFormat).message))
            /\ cpPc' = "done"
       ELSE /\ cpPc' = "export"
            /\ UNCHANGED settled
    /\ UNCHANGED <<files, outputFormat, genFormat, fileIdx, extracted, coreVars, appVars>>

\* the exporter succeeds: generateModelFromPhotogrammetry returns its Blob
ExportResolves ==
    /\ cpPc = "export"
    /\ progressLog' = Append(progressLog, 100)
    /\ settled' = Resolved(exportScene(genFormat).blob)
    /\ cpPc' = "done"
    /\ UNCHANGED <<files, outputFormat, genFormat, fileIdx, extracted,
                   glbArrayBuffer, coreVars, appVars>>

\* the exporter fails: exportSceneToFormat wraps the Error, and nothing
\* after it does
ExportRejects ==
    /\ cpPc = "export"
    /\ settled' = Rejected(ExportError(genFormat, exportScene(genFormat).error))
    /\ cpPc' = "done"
    /\ UNCHANGED <<files, outputFormat, progressLog, genFormat, fileIdx, extracted,
                   glbArrayBuffer, coreVars, appVars>>

ConvNext ==
    \/ CallConvertPhotogrammetry
    \/ ExtractImageColor
    \/ GenerateModel
    \/ ExportResolves
    \/ ExportRejects

ConvSpec == ConvInit /\ [][ConvNext]_vars

(***************************************************************************)
(* The hook useConversion (hooks/use-conversion.ts) with the services it   *)
(* calls: render3DTo2D and render3DToSpriteSheet (lib/three-renderer.ts),  *)
(* convertImage2DTo3D and convertPhotogrammetry.  calls holds the calls of *)
(* convert3DTo2D and convert2DTo3D in the order they were made; an action  *)
(* is one synchronous run of one call, and the runs of different calls and *)
(* reset() interleave freely.  setState is applied at once.  Whether a     *)
(* loader, a canvas or an exporter succeeds is decided when it settles.    *)
(* The color extraction of convertPhotogrammetry is one step here.         *)
(***************************************************************************)
MaxCalls == 2

\* setState with an object literal of five fields: resultFile and
\* resultFormat are left out
FiveFields(isConverting, progress, error, result, resultUrl) ==
    [isConverting |-> isConverting, progress |-> progress, error |-> error,
     result |-> result, resultUrl |-> resultUrl,
     resultFile |-> UndefinedOf(NoFile), resultFormat |-> UndefinedOf("")]

\* use-conversion.ts:35-41 and 106-112
StartState == FiveFields(TRUE, 0, NullOf(""), NullOf(NoBlob), NullOf(""))

\* use-conversion.ts:80-86, 96-102 and 152-158
ErrorState(message) == FiveFields(FALSE, 0, Some(message), NullOf(NoBlob), NullOf(""))

\* use-conversion.ts:67-75 and 138-146; format || null
SuccessState(blob, url, file, format) ==
    [isConverting |-> FALSE, progress |-> 100, error |-> NullOf(""),
     result |-> Some(blob), resultUrl |-> Some(url), resultFile |-> Some(file),
     resultFormat |-> IF format = "" THEN NullOf("") ELSE Some(format)]

\* setState((prev) => ({ ...prev, progress: p })) for each p of ps in turn
RECURSIVE ReportProgress(_, _)
ReportProgress(state, ps) ==
    IF ps = <<>> THEN state
    ELSE ReportProgress([state EXCEPT !.progress = Head(ps)], Tail(ps))

\* Math.round(num / den) for num >= 0, den > 0
Round(num, den) == (2 * num + den) \div (2 * den)

\* three-renderer.ts:234-249: the values render3DToSpriteSheet reports
SpriteProgress(angleCount) ==
    [i \in 1..angleCount |-> Round(i * 100, angleCount)]

RECURSIVE LowerFrom(_, _)
LowerFrom(s, i) ==
    IF i > Len(s) THEN ""
    ELSE LET c == SubSeq(s, i, i)
             ks == {k \in 1..Len(UpperCase) : SubSeq(UpperCase, k, k) = c}
         IN  (IF ks = {} THEN c
              ELSE LET k == CHOOSE k \in ks : TRUE IN SubSeq(LowerCase, k, k))
             \o LowerFrom(s, i + 1)

\* String.prototype.toLowerCase on ASCII text
ToLowerCase(s) == LowerFrom(s, 1)

\* name.split(".").pop(): the text after the last dot, the name if it has none
LastSegment(name) ==
    LET dots == {i \in 1..Len(name) : SubSeq(name, i, i) = "."}
    IN  IF dots = {} THEN name
        ELSE SubSeq(name, (CHOOSE i \in dots : \A j \in dots : j <= i) + 1, Len(name))

\* three-renderer.ts:28
FileExtension(name) == ToLowerCase(LastSegment(name))

\* three-renderer.ts:32-51: the extensions loadModel has a loader for
LoaderExtensions == {"gltf", "glb", "fbx", "obj"}

\* three-renderer.ts:310-321
getMimeType(format) ==
    CASE format = "PNG" -> "image/png"
      [] format = "JPG" -> "image/jpeg"
      [] format = "WEBP" -> "image/webp"
      [] OTHER -> "image/png"

\* image-to-3d-service.ts:26-28: the Error convertImage2DTo3D throws
ComingSoon ==
    "This feature is coming soon! We're working hard to bring 2D to 3D conversion to you."

\* URL.createObjectURL for the Blob of call c: a URL of its own
ObjectUrl(c) == "blob:" \o ToString(c)

\* new File([blob], fileName, { type: blob.type })
NewFile(blob, fileName) == [name |-> fileName, type |-> blob.type, data |-> blob.data]

\* the value a call of the hook resolves with: null or { blob, url, file }
NullValue == [isNull |-> TRUE, blob |-> NoBlob, url |-> "", file |-> NoFile]
ResultValue(blob, url, file) == [isNull |-> FALSE, blob |-> blob, url |-> url, file |-> file]

\* the promise a call of the hook returned
Returning == [state |-> "pending", value |-> NullValue]
Returns(value) == [state |-> "resolved", value |-> value]
Throws == [state |-> "rejected", value |-> NullValue]

\* the arguments of the calls
ModelFileNames == {"model.GLB", "notes.txt"}
RenderFormats == {"JPG"}
SpriteAngleCounts == {0, 4}
HookFileLists == { [i \in 1..n |-> FileAt(i, 0, 0, "loadError", 0)] : n \in {0, 1, MinImages} }
ModelFormats == {"glb"}
Methods == {"auto", "photogrammetry"}

\* a call as it is made
NewCall(fn, fs, fileName, format, method, sprite) ==
    [fn |-> fn, files |-> fs, fileName |-> fileName, format |-> format,
     method |-> method, sprite |-> sprite,
     pc |-> "start", svc |-> Pending, ret |-> Returning]

\* the variables the hook leaves alone
notHookVars == <<coreVars, convVars, pairVars, previewVars, sheetVars>>

HookInit ==
    /\ PadIdle
    /\ ConvIdle
    /\ shape = "cube" /\ colors = <<>> /\ imageCount = 0 /\ pc = "idle" /\ out = NoResult
    /\ HookIdle
    /\ PairIdle /\ PreviewIdle /\ SheetIdle

\* use-conversion.ts:35-59: convert3DTo2D up to the await of loadModel in
\* the renderer
CallConvert3DTo2D ==
    /\ Len(calls) < MaxCalls
    /\ \E name \in ModelFileNames, format \in RenderFormats, sprite \in SpriteAngleCounts :
          /\ hookState' =
                IF sprite # 0 THEN StartState ELSE ReportProgress(StartState, <<20>>)
          /\ calls' = Append(calls,
                [NewCall("convert3DTo2D", <<>>, name, format, "", sprite)
                    EXCEPT !.pc = "loadModel"])
    /\ UNCHANGED <<revokedUrls, notHookVars>>

\* three-renderer.ts:133-159 and 222-256: the loader resolved; the renderer
\* runs up to canvas.toBlob.  The sprite sheet needs a 2D context and reports
\* its progress in this run
ModelLoaded(c) ==
    /\ calls[c].pc = "loadModel"
    /\ FileExtension(calls[c].fileName) \in LoaderExtensions
    /\ \E ctx \in BOOLEAN :
          IF calls[c].sprite # 0 /\ ~ ctx
          THEN /\ calls' = [calls EXCEPT ![c].pc = "settled",
                              ![c].svc = Rejected("Failed to create canvas context")]
               /\ UNCHANGED hookState
          ELSE /\ calls' = [calls EXCEPT ![c].pc = "toBlob"]
               /\ hookState' =
                     IF calls[c].sprite # 0
                     THEN ReportProgress(hookState, SpriteProgress(calls[c].sprite))
                     ELSE hookState
    /\ UNCHANGED <<revokedUrls, notHookVars>>

\* three-renderer.ts:27-55: loadModel rejects: no loader for the extension,
\* or the loader failed
ModelLoadFails(c) ==
    /\ calls[c].pc = "loadModel"
    /\ calls' = [calls EXCEPT ![c].pc = "settled",
                   ![c].svc = Rejected(
                       IF FileExtension(calls[c].fileName) \in LoaderExtensions
                       THEN "loader error"
                       ELSE "Unsupported format: " \o FileExtension(calls[c].fileName))]
    /\ UNCHANGED <<hookState, revokedUrls, notHookVars>>

\* three-renderer.ts:144-160 and 254-256: the callback of canvas.toBlob
ToBlob(c) ==
    /\ calls[c].pc = "toBlob"
    /\ \E made \in BOOLEAN :
          calls' = [calls EXCEPT ![c].pc = "settled",
                      ![c].svc =
                          IF calls[c].sprite # 0
                          THEN Resolved(IF made
                                        THEN [type |-> "image/png",
                                              data |-> ExporterBytes("canvas.toBlob")]
                                        ELSE NoBlob)
                          ELSE IF made
                          THEN Resolved([type |-> getMimeType(calls[c].format),
                                         data |-> ExporterBytes("canvas.toBlob")])
                          ELSE Rejected("Failed to create image blob")]
    /\ UNCHANGED <<hookState, revokedUrls, notHookVars>>

\* use-conversion.ts:60-88: convert3DTo2D after its await
Convert3DTo2DCompletes(c) ==
    /\ calls[c].pc = "settled"
    /\ calls[c].fn = "convert3DTo2D"
    /\ LET blob == calls[c].svc.blob
           file == NewFile(blob, "converted." \o ToLowerCase(calls[c].format))
       IN  IF calls[c].svc.state = "resolved"
           THEN /\ hookState' = SuccessState(blob, ObjectUrl(c), file, calls[c].format)
                /\ calls' = [calls EXCEPT ![c].pc = "done",
                               ![c].ret = Returns(ResultValue(blob, ObjectUrl(c), file))]
           ELSE /\ hookState' = ErrorState(calls[c].svc.message)
                /\ calls' = [calls EXCEPT ![c].pc = "done", ![c].ret = Throws]
    /\ UNCHANGED <<revokedUrls, notHookVars>>

\* image-to-3d-service.ts:101-106 and model-format-converter.ts:28: the
\* values reported between extractImageColors and the export
GenerateProgress == <<70, 85, 50>>

\* use-conversion.ts:95-131: convert2DTo3D up to its await, with the run of
\* the service it calls: convertImage2DTo3D throws at once, and
\* convertPhotogrammetry runs up to the await of extractImageColors
CallConvert2DTo3D ==
    /\ Len(calls) < MaxCalls
    /\ \E fs \in HookFileLists, format \in ModelFormats, method \in Methods :
          LET call == NewCall("convert2DTo3D", fs, "", format, method, 0)
          IN  IF Len(fs) = 0
              THEN /\ hookState' = ErrorState("Please select an image file")
                   /\ calls' = Append(calls,
                         [call EXCEPT !.pc = "done", !.ret = Returns(NullValue)])
              ELSE IF method # "photogrammetry"
              THEN /\ hookState' = StartState
                   /\ calls' = Append(calls,
                         [call EXCEPT !.pc = "settled", !.svc = Rejected(ComingSoon)])
              ELSE IF ValidationError(fs) # ""
              THEN /\ hookState' = ReportProgress(StartState, <<10>>)
                   /\ calls' = Append(calls,
                         [call EXCEPT !.pc = "settled",
                             !.svc = Rejected(WrapError(ValidationError(fs)))])
              ELSE /\ hookState' = ReportProgress(StartState, StartProgress(format))
                   /\ calls' = Append(calls, [call EXCEPT !.pc = "extract"])
    /\ UNCHANGED <<revokedUrls, notHookVars>>

\* image-to-3d-service.ts:99-109: extractImageColors has returned;
\* generateModelFromPhotogrammetry runs up to the await in exportSceneToFormat
PhotogrammetryGenerates(c) ==
    /\ calls[c].pc = "extract"
    /\ hookState' = ReportProgress(hookState, GenerateProgress)
    /\ calls' =
          IF exportScene(GenerateFormat(calls[c].format)).throws
          THEN [calls EXCEPT ![c].pc = "settled",
                  ![c].svc = Rejected(ExportError(GenerateFormat(calls[c].format),
                                 exportScene(GenerateFormat(calls[c].format)).message))]
          ELSE [calls EXCEPT ![c].pc = "export"]
    /\ UNCHANGED <<revokedUrls, notHookVars>>

\* image-to-3d-service.ts:109-113: the exporter succeeded
PhotogrammetryExportResolves(c) ==
    /\ calls[c].pc = "export"
    /\ hookState' = ReportProgress(hookState, <<100>>)
    /\ calls' = [calls EXCEPT ![c].pc = "settled",
                   ![c].svc = Resolved(exportScene(GenerateFormat(calls[c].format)).blob)]
    /\ UNCHANGED <<revokedUrls, notHookVars>>

\* model-format-converter.ts:33-37: the exporter failed
PhotogrammetryExportRejects(c) ==
    /\ calls[c].pc = "export"
    /\ calls' = [calls EXCEPT ![c].pc = "settled",
                   ![c].svc = Rejected(ExportError(GenerateFormat(calls[c].format),
                                  exportScene(GenerateFormat(calls[c].format)).error))]
    /\ UNCHANGED <<hookState, revokedUrls, notHookVars>>

\* variant of Convert2DTo3DCompletes that rethrows a failure, as
\* convert3DTo2D does
Convert2DTo3DRethrows(c) ==
    /\ calls[c].pc = "settled"
    /\ calls[c].fn = "convert2DTo3D"
    /\ LET blob == calls[c].svc.blob
           file == NewFile(blob, "converted." \o ToLowerCase(calls[c].format))
       IN  IF calls[c].svc.state = "resolved"
           THEN /\ hookState' = SuccessState(blob, ObjectUrl(c), file, calls[c].format)
                /\ calls' = [calls EXCEPT ![c].pc = "done",
                               ![c].ret = Returns(ResultValue(blob, ObjectUrl(c), file))]
           ELSE /\ hookState' = ErrorState(calls[c].svc.message)
                /\ calls' = [calls EXCEPT ![c].pc = "done", ![c].ret = Throws]
    /\ UNCHANGED <<revokedUrls, notHookVars>>

\* use-conversion.ts:134-160: convert2DTo3D after its await
Convert2DTo3DCompletes(c) ==
    /\ calls[c].pc = "settled"
    /\ calls[c].fn = "convert2DTo3D"
    /\ LET blob == calls[c].svc.blob
           file == NewFile(blob, "converted." \o ToLowerCase(calls[c].format))
       IN  IF calls[c].svc.state = "resolved"
           THEN /\ hookState' = SuccessState(blob, ObjectUrl(c), file, calls[c].format)
                /\ calls' = [calls EXCEPT ![c].pc = "done",
                               ![c].ret = Returns(ResultValue(blob, ObjectUrl(c), file))]
           ELSE /\ hookState' = ErrorState(calls[c].svc.message)
                /\ calls' = [calls EXCEPT ![c].pc = "done", ![c].ret = Returns(NullValue)]
    /\ UNCHANGED <<revokedUrls, notHookVars>>

\* use-conversion.ts:174-187
Reset ==
    /\ revokedUrls' =
          IF hookState.resultUrl.is = "value"
          THEN revokedUrls \cup {hookState.resultUrl.v}
          ELSE revokedUrls
    /\ hookState' = InitialState
    /\ UNCHANGED <<calls, notHookVars>>

HookNext ==
    \/ CallConvert3DTo2D
    \/ CallConvert2DTo3D
    \/ Reset
    \/ \E c \in DOMAIN calls : ModelLoaded(c)
    \/ \E c \in DOMAIN calls : ModelLoadFails(c)
    \/ \E c \in DOMAIN calls : ToBlob(c)
    \/ \E c \in DOMAIN calls : Convert3DTo2DCompletes(c)
    \/ \E c \in DOMAIN calls : PhotogrammetryGenerates(c)
    \/ \E c \in DOMAIN calls : PhotogrammetryExportResolves(c)
    \/ \E c \in DOMAIN calls : PhotogrammetryExportRejects(c)
    \/ \E c \in DOMAIN calls : Convert2DTo3DCompletes(c)

HookSpec == HookInit /\ [][HookNext]_vars

(***************************************************************************)
(* Two invocations of the core.  createPhotogrammetryModel and             *)
(* createCubeGLB are synchronous and the module holds no variable outside  *)
(* its functions (every array and buffer is created inside the call), so   *)
(* an invocation is one step that reads its arguments only; the two steps  *)
(* are taken in either order.                                              *)
(***************************************************************************)
MaxPairImages == 5

PairCalls == {1, 2}

\* the arguments of an invocation: createCubeGLB takes none
PairArguments ==
    { [shape |-> "cube", colors |-> <<>>, imageCount |-> 0] }
    \cup { [shape |-> "sphere", colors |-> cs, imageCount |-> n] :
             cs \in ColorLists, n \in {0, MaxPairImages} }

NotReturned == [returned |-> FALSE, glbFile |-> <<>>]

\* the ArrayBuffer an invocation with the arguments a returns
CoreResult(a) ==
    IF a.shape = "sphere"
    THEN createPhotogrammetryModel(a.colors, a.imageCount).glbFile
    ELSE createCubeGLB.glbFile

PairInit ==
    /\ PadIdle
    /\ ConvIdle
    /\ shape = "cube" /\ colors = <<>> /\ imageCount = 0 /\ pc = "idle" /\ out = NoResult
    /\ HookIdle /\ PreviewIdle /\ SheetIdle
    /\ pairArgs \in [PairCalls -> PairArguments]
    /\ pairResults = [k \in PairCalls |-> NotReturned]

\* variant of Invoke that assembles the container in a buffer kept between
\* calls: an invocation that follows another one returns the bytes left there
InvokeReusingBuffer(k) ==
    /\ ~ pairResults[k].returned
    /\ pairResults' =
          [pairResults EXCEPT ![k] =
              [returned |-> TRUE,
               glbFile |->
                   IF \E j \in PairCalls : pairResults[j].returned
                   THEN pairResults[CHOOSE j \in PairCalls : pairResults[j].returned].glbFile
                   ELSE CoreResult(pairArgs[k])]]
    /\ UNCHANGED <<pairArgs, coreVars, convVars, hookVars, previewVars, sheetVars>>

\* image-to-3d-service.ts:163-343 and 457-644: one invocation, from call to
\* return
Invoke(k) ==
    /\ ~ pairResults[k].returned
    /\ pairResults' =
          [pairResults EXCEPT ![k] =
              [returned |-> TRUE, glbFile |-> CoreResult(pairArgs[k])]]
    /\ UNCHANGED <<pairArgs, coreVars, convVars, hookVars, previewVars, sheetVars>>

PairNext == \E k \in PairCalls : Invoke(k)

PairSpec == PairInit /\ [][PairNext]_vars

(***************************************************************************)
(* The component ModelPreview: the effect on its file prop, what it        *)
(* renders, and the onCreated callback of its Canvas.                      *)
(***************************************************************************)
\* the object URLs the component may create in one run
MaxPreviewUrls == 6

\* the names of the files handed to the component
PreviewFileNames == {"a.glb", "b.OBJ", "c.fbx", "notes.txt"}

\* ModelPreview: const supportedFormats
supportedFormats == {"gltf", "glb", "fbx", "obj"}

\* file.name.split(".").pop()?.toLowerCase() || ""
PreviewExtension(name) == FileExtension(name)

\* the n-th URL handed out by URL.createObjectURL
PreviewUrl(n) == "blob:preview-" \o ToString(n)

\* the effect body creates a URL for this file prop and returns a cleanup
CreatesUrl(file) == file # "" /\ PreviewExtension(file) \in supportedFormats

\* the body of the effect on [file], run on the state it finds
FileEffect(state, file, n) ==
    IF file = ""
    THEN [state EXCEPT !.objectUrl = NullOf(""), !.fileType = ""]
    ELSE IF PreviewExtension(file) \notin supportedFormats
    THEN [state EXCEPT !.error =
             Some("Format ." \o PreviewExtension(file) \o " preview not supported")]
    ELSE [objectUrl |-> Some(PreviewUrl(n)), fileType |-> PreviewExtension(file),
          isLoading |-> TRUE, error |-> NullOf("")]

\* the cleanup of the effect run for the file the component holds
FileEffectCleanup ==
    IF CreatesUrl(pvFile) THEN pvRevoked \cup {pvState.objectUrl.v} ELSE pvRevoked

\* the render reaches the Canvas element: a file and no error
RendersCanvas(file, state) == file # "" /\ state.error.is # "value"

\* the Canvas after a render: kept if it was rendered before, mounted anew
\* if it was not, gone if it is not rendered
CanvasAfter(canvas, file, state) ==
    IF RendersCanvas(file, state)
    THEN IF canvas = "none" THEN "mounting" ELSE canvas
    ELSE "none"

\* the variables the component leaves alone
notPreviewVars == <<coreVars, convVars, hookVars, pairVars, sheetVars>>

PreviewInit ==
    /\ PadIdle
    /\ ConvIdle
    /\ shape = "cube" /\ colors = <<>> /\ imageCount = 0 /\ pc = "idle" /\ out = NoResult
    /\ HookIdle /\ PairIdle /\ SheetIdle
    /\ PreviewIdle

\* the component is mounted with a file prop: first render, then the effect
MountPreview ==
    /\ ~ pvMounted
    /\ \E file \in PreviewFileNames \cup {""} :
          /\ CreatesUrl(file) => pvUrls < MaxPreviewUrls
          /\ pvFile' = file
          /\ pvState' = FileEffect(PreviewInitialState, file, pvUrls + 1)
          /\ pvUrls' = IF CreatesUrl(file) THEN pvUrls + 1 ELSE pvUrls
          /\ pvCanvas' = CanvasAfter("none", file, pvState')
    /\ pvMounted' = TRUE
    /\ UNCHANGED <<pvRevoked, notPreviewVars>>

\* the parent hands the mounted component another file: render, cleanup of
\* the last effect, then the effect
ChangeFile ==
    /\ pvMounted
    /\ \E file \in PreviewFileNames \cup {""} :
          /\ CreatesUrl(file) => pvUrls < MaxPreviewUrls
          /\ pvFile' = file
          /\ pvState' = FileEffect(pvState, file, pvUrls + 1)
          /\ pvUrls' = IF CreatesUrl(file) THEN pvUrls + 1 ELSE pvUrls
          /\ pvCanvas' = CanvasAfter(pvCanvas, file, pvState')
    /\ pvRevoked' = FileEffectCleanup
    /\ UNCHANGED <<pvMounted, notPreviewVars>>

\* onCreated={() => setIsLoading(false)}: a Canvas calls it once, after it is
\* mounted
CanvasCreated ==
    /\ pvMounted
    /\ pvCanvas = "mounting"
    /\ pvCanvas' = "created"
    /\ pvState' = [pvState EXCEPT !.isLoading = FALSE]
    /\ UNCHANGED <<pvMounted, pvFile, pvUrls, pvRevoked, notPreviewVars>>

\* the parent stops rendering the component: the cleanup runs, the state is
\* dropped
UnmountPreview ==
    /\ pvMounted
    /\ pvRevoked' = FileEffectCleanup
    /\ pvMounted' = FALSE
    /\ pvFile' = ""
    /\ pvState' = PreviewInitialState
    /\ pvCanvas' = "none"
    /\ UNCHANGED <<pvUrls, notPreviewVars>>

PreviewNext ==
    \/ MountPreview
    \/ ChangeFile
    \/ CanvasCreated
    \/ UnmountPreview

\* a mounted Canvas gets its onCreated call
PreviewSpec == PreviewInit /\ [][PreviewNext]_vars /\ WF_vars(CanvasCreated)

(***************************************************************************)
(* render3DToSpriteSheet: the grid of the sheet and the cell each view is  *)
(* drawn into.                                                             *)
(***************************************************************************)
\* the largest angleCount the function is called with
MaxAngleCount == 33

\* Math.ceil(Math.sqrt(n)): the least c with c * c >= n
CeilSqrt(n) == CHOOSE c \in 0..n : c * c >= n /\ \A d \in 0..(c - 1) : d * d < n

\* variant of CeilDiv that rounds the quotient down
CeilDivRoundsDown(n, c) == n \div c

\* Math.ceil(n / c) for n >= 0 and c >= 1
CeilDiv(n, c) == (n + c - 1) \div c

\* three-renderer.ts:205-206
SheetGrid(angleCount) ==
    [cols |-> CeilSqrt(angleCount),
     rows |-> CeilDiv(angleCount, CeilSqrt(angleCount))]

\* three-renderer.ts:242-243: the cell of view i
SheetCell(i, gridCols) == [col |-> i % gridCols, row |-> i \div gridCols]

\* the variables the function leaves alone
notSheetVars == <<coreVars, convVars, hookVars, pairVars, previewVars>>

\* three-renderer.ts:201-222: the call up to the await of loadModel
SheetInit ==
    /\ PadIdle
    /\ ConvIdle
    /\ shape = "cube" /\ colors = <<>> /\ imageCount = 0 /\ pc = "idle" /\ out = NoResult
    /\ HookIdle /\ PairIdle /\ PreviewIdle
    /\ sheetAngleCount \in 1..MaxAngleCount
    /\ sheetGrid = SheetGrid(sheetAngleCount)
    /\ sheetPc = "loadModel"
    /\ sheetI = 0
    /\ sheetCells = <<>>

\* three-renderer.ts:222-232: the model is loaded; the sheet canvas gives a
\* 2d context or none
SheetModelLoaded ==
    /\ sheetPc = "loadModel"
    /\ \E ctx \in BOOLEAN :
          sheetPc' = IF ctx THEN "draw" ELSE "rejected"
    /\ UNCHANGED <<sheetAngleCount, sheetGrid, sheetI, sheetCells, notSheetVars>>

\* three-renderer.ts:222: loadModel rejects
SheetModelLoadFails ==
    /\ sheetPc = "loadModel"
    /\ sheetPc' = "rejected"
    /\ UNCHANGED <<sheetAngleCount, sheetGrid, sheetI, sheetCells, notSheetVars>>

\* three-renderer.ts:234-249: one turn of the loop
DrawView ==
    /\ sheetPc = "draw"
    /\ sheetI < sheetAngleCount
    /\ sheetCells' = Append(sheetCells, SheetCell(sheetI, sheetGrid.cols))
    /\ sheetI' = sheetI + 1
    /\ UNCHANGED <<sheetPc, sheetAngleCount, sheetGrid, notSheetVars>>

\* three-renderer.ts:251-256: the loop is over; the sheet is turned into a
\* Blob
SheetToBlob ==
    /\ sheetPc = "draw"
    /\ ~ (sheetI < sheetAngleCount)
    /\ sheetPc' = "resolved"
    /\ UNCHANGED <<sheetAngleCount, sheetGrid, sheetI, sheetCells, notSheetVars>>

SheetNext ==
    \/ SheetModelLoaded
    \/ SheetModelLoadFails
    \/ DrawView
    \/ SheetToBlob

SheetSpec == SheetInit /\ [][SheetNext]_vars


(***************************************************************************)
(* Reading a produced container back.                                      *)
(***************************************************************************)
Returned(s) == pc = "returned" /\ shape = s

\* byte width of a glTF componentType: FLOAT, UNSIGNED_INT, UNSIGNED_SHORT
ComponentWidth(componentType) ==
    CASE componentType = 5126 -> 4
      [] componentType = 5125 -> 4
      [] componentType = 5123 -> 2

\* number of components of a glTF element type
Arity(type) ==
    CASE type = "SCALAR" -> 1
      [] type = "VEC3" -> 3
      [] type = "VEC4" -> 4

\* the bytes that end the returned file: the payload of the binary chunk
BinaryPayload(o) == Slice(o.glbFile, Len(o.glbFile) - Len(o.binChunk), Len(o.binChunk))

\* the bytes of the binary payload that buffer view n (counted from 0) names
ViewBytes(o, n) ==
    LET bv == o.glTF.bufferViews[n + 1]
    IN  Slice(BinaryPayload(o), bv.byteOffset, bv.byteLength)

\* the bytes an accessor (counted from 0) decodes
AccessorBytes(o, a) == ViewBytes(o, o.glTF.accessors[a + 1].bufferView)

\* count * component width * arity of an accessor
AccessorByteSize(acc) == acc.count * ComponentWidth(acc.componentType) * Arity(acc.type)

RECURSIVE SumByteLength(_, _)
SumByteLength(views, n) ==
    IF n = 0 THEN 0 ELSE views[n].byteLength + SumByteLength(views, n - 1)

(***************************************************************************)
(* Claims.                                                                 *)
(***************************************************************************)
\* C1: sphere round trip. In the container returned by
\* createPhotogrammetryModel the bytes of buffer views 0, 1, 2, 3 are the bytes
\* of the generated position, normal, color and index arrays, so the POSITION,
\* NORMAL and indices accessors decode to the generated arrays.
C1_SphereRoundTrip ==
    Returned("sphere") =>
        /\ ViewBytes(out, 0) = Float32Bytes(out.vertices)
        /\ ViewBytes(out, 1) = Float32Bytes(out.normals)
        /\ ViewBytes(out, 2) = Float32Bytes(out.vertexColors)
        /\ ViewBytes(out, 3) = Uint32Bytes(out.indices)
        /\ AccessorBytes(out, 0) = Float32Bytes(out.vertices)
        /\ AccessorBytes(out, 1) = Float32Bytes(out.normals)
        /\ AccessorBytes(out, 3) = Uint32Bytes(out.indices)

\* C2: in every produced container the total-length field at byte offset 8
\* equals 12 + 8 + paddedJSONLen + 8 + paddedBinLen.
C2_TotalLengthField ==
    pc = "returned" =>
        GetUint32LE(out.glbFile, 8) = 12 + 8 + Len(out.jsonChunk) + 8 + Len(out.binChunk)

\* C3: container byte layout. The JSON chunk length is at byte offset 12, the
\* JSON tag at 16, the padded JSON bytes (length N) at 20, the binary chunk
\* length at 20+N, the binary tag at 24+N and the padded binary bytes at 28+N.
C3_ContainerLayout ==
    pc = "returned" =>
        LET N == Len(out.jsonChunk)
        IN  /\ Len(out.glbFile) = 28 + N + Len(out.binChunk)
            /\ GetUint32LE(out.glbFile, 12) = N
            /\ GetUint32LE(out.glbFile, 16) = JSONTag
            /\ Slice(out.glbFile, 20, N) = out.jsonChunk
            /\ GetUint32LE(out.glbFile, 20 + N) = Len(out.binChunk)
            /\ GetUint32LE(out.glbFile, 24 + N) = BINTag
            /\ Slice(out.glbFile, 28 + N, Len(out.binChunk)) = out.binChunk

\* C4: in every produced container the total-length field of the header
\* equals the byte length of the buffer that is returned.
C4_LengthFieldIsBufferLength ==
    pc = "returned" => GetUint32LE(out.glbFile, 8) = Len(out.glbFile)

C4_Witness ==
    /\ Returned("sphere")
    /\ out.subdivisions = 8
    /\ Len(colors) = 2
    /\ GetUint32LE(out.glbFile, 8) = Len(out.glbFile)
    /\ Len(out.glbFile) > HeaderSize + 16

\* C5: in the sphere path the POSITION, NORMAL and COLOR_0 accessors all
\* declare (rings+1)*(sectors+1) elements, with rings = subdivisions and
\* sectors = 2 * subdivisions.
C5_SameVertexCount ==
    Returned("sphere") =>
        LET vertexCount == (out.subdivisions + 1) * (2 * out.subdivisions + 1)
            prim == out.glTF.meshes[1].primitives[1]
        IN  /\ out.glTF.accessors[prim.attributes.POSITION + 1].count = vertexCount
            /\ out.glTF.accessors[prim.attributes.NORMAL + 1].count = vertexCount
            /\ out.glTF.accessors[prim.attributes.COLOR_0 + 1].count = vertexCount

\* C6: cube accessor consistency. For each of the three accessors of
\* createCubeGLB, count * component width * arity equals the byteLength of the
\* buffer view it references, the index accessor's componentType has the
\* width of the packed index array, and every view length is a multiple of
\* component width * arity.
C6_CubeAccessorsConsistent ==
    Returned("cube") =>
        /\ \A a \in 1..Len(out.glTF.accessors) :
              LET acc == out.glTF.accessors[a]
                  bv == out.glTF.bufferViews[acc.bufferView + 1]
              IN  /\ AccessorByteSize(acc) = bv.byteLength
                  /\ bv.byteLength % (ComponentWidth(acc.componentType) * Arity(acc.type)) = 0
        /\ LET idx == out.glTF.accessors[out.glTF.meshes[1].primitives[1].indices + 1]
           IN  ComponentWidth(idx.componentType) * Len(out.indices)
                 = out.glTF.bufferViews[idx.bufferView + 1].byteLength

\* C7: sphere accessor consistency. For each of the four accessors of
\* createPhotogrammetryModel, count * component width * arity equals the
\* byteLength of the buffer view it references.
C7_SphereAccessorsConsistent ==
    Returned("sphere") =>
        \A a \in 1..Len(out.glTF.accessors) :
            LET acc == out.glTF.accessors[a]
            IN  AccessorByteSize(acc) = out.glTF.bufferViews[acc.bufferView + 1].byteLength

C7_Witness ==
    /\ Returned("sphere")
    /\ out.subdivisions = 5
    /\ Len(colors) = 1
    /\ Len(out.glTF.accessors) = 4
    /\ \A a \in 1..4 : AccessorByteSize(out.glTF.accessors[a]) > 0

\* C8: buffer-view layout. In both encoders the byteOffset of view n is the
\* sum of the byteLengths of the views before it, no two views overlap, and
\* the byteLengths sum to the unpadded binary data length, which is
\* buffers[0].byteLength.
C8_BufferViewLayout ==
    pc = "returned" =>
        LET views == out.glTF.bufferViews
        IN  /\ \A n \in 1..Len(views) : views[n].byteOffset = SumByteLength(views, n - 1)
            /\ \A m, n \in 1..Len(views) :
                  m < n => views[m].byteOffset + views[m].byteLength <= views[n].byteOffset
            /\ SumByteLength(views, Len(views)) = Len(out.binData)
            /\ out.glTF.buffers[1].byteLength = Len(out.binData)

C8_Witness ==
    /\ Returned("sphere")
    /\ out.subdivisions = 3
    /\ Len(out.glTF.bufferViews) = 4
    /\ out.glTF.bufferViews[4].byteOffset > out.glTF.bufferViews[3].byteOffset
    /\ out.glTF.bufferViews[4].byteOffset + out.glTF.bufferViews[4].byteLength
         = Len(out.binData)

\* C9: chunk padding. For every JSON and every binary byte buffer the padded
\* chunk has a length that is a multiple of 4, the padding is the smallest
\* such (0..3 bytes), the original bytes are kept as a prefix, and every
\* padding byte is 0x20 in the JSON chunk and 0x00 in the binary chunk.
C9_ChunkPadding ==
    padPc = "padded" =>
        LET added == Len(padChunk) - Len(padBuf)
        IN  /\ Len(padChunk) % 4 = 0
            /\ added \in 0..3
            /\ SubSeq(padChunk, 1, Len(padBuf)) = padBuf
            /\ \A b \in (Len(padBuf) + 1)..Len(padChunk) :
                  padChunk[b] = U8(IF padKind = "json" THEN 32 ELSE 0)

C9_Witness ==
    /\ padPc = "padded"
    /\ padKind = "bin"
    /\ Len(padBuf) = 5
    /\ Len(padChunk) = 8
    /\ padBuf[5] = U8(32)
    /\ padChunk[6] = U8(0)

\* C10: chunk headers and order. The 8 bytes before the padded JSON bytes hold
\* the little-endian padded JSON length and the tag 0x4E4F534A; the 8 bytes
\* after them hold the little-endian padded binary length and the tag
\* 0x004E4942, followed by the padded binary bytes, which end the file; the
\* JSON chunk precedes the binary chunk; bytes 0..7 hold the magic 0x46546C47
\* and version 2.
C10_ChunkHeadersAndOrder ==
    pc = "returned" =>
        LET N == Len(out.jsonChunk)
            M == Len(out.binChunk)
            binAt == Len(out.glbFile) - M
            jsonAt == binAt - 8 - N
        IN  /\ jsonAt >= 16
            /\ GetUint32LE(out.glbFile, 0) = GLBMagic
            /\ GetUint32LE(out.glbFile, 4) = GLBVersion
            /\ GetUint32LE(out.glbFile, jsonAt - 8) = N
            /\ GetUint32LE(out.glbFile, jsonAt - 4) = JSONTag
            /\ Slice(out.glbFile, jsonAt, N) = out.jsonChunk
            /\ GetUint32LE(out.glbFile, jsonAt + N) = M
            /\ GetUint32LE(out.glbFile, jsonAt + N + 4) = BINTag
            /\ Slice(out.glbFile, binAt, M) = out.binChunk
            /\ jsonAt + N <= binAt

C10_Witness ==
    /\ Returned("cube")
    /\ Len(out.jsonChunk) = 804
    /\ Len(out.binChunk) = 452
    /\ GetUint32LE(out.glbFile, Len(out.glbFile) - 452 - 8) = 452

\* C11: for every subdivisions s in 2..8, generateUVSphere (rings = s,
\* sectors = 2s) returns (rings+1)*(sectors+1) vertices with 3 position and 3
\* normal floats each, and a strictly positive, even number of indices that is
\* a multiple of 3, every index being less than the vertex count.
C11_SphereCounts ==
    Returned("sphere") =>
        LET rings == out.subdivisions
            sectors == 2 * out.subdivisions
            vertexCount == (rings + 1) * (sectors + 1)
        IN  /\ out.subdivisions \in 2..8
            /\ Len(out.vertices) = 3 * vertexCount
            /\ Len(out.normals) = 3 * vertexCount
            /\ Len(out.indices) > 0
            /\ Len(out.indices) % 2 = 0
            /\ Len(out.indices) % 3 = 0
            /\ \A n \in 1..Len(out.indices) : out.indices[n] \in 0..(vertexCount - 1)

C11_Witness ==
    /\ Returned("sphere")
    /\ out.subdivisions = 8
    /\ Len(out.vertices) = 3 * 153
    /\ Len(out.indices) = 672
    /\ \E n \in 1..Len(out.indices) : out.indices[n] = 151

\* C12: for every image count n >= 0 the tessellation parameter is
\* clamp(2 + floor(n / 5), 2, 8), so it lies in 2..8; for n = 25 it is 7,
\* giving rings 7, sectors 14 and 120 vertices.
C12_SubdivisionsClamped ==
    Returned("sphere") =>
        LET raw == 2 + (imageCount \div 5)
            clamped == IF raw < 2 THEN 2 ELSE IF raw > 8 THEN 8 ELSE raw
        IN  /\ out.subdivisions = clamped
            /\ out.subdivisions \in 2..8
            /\ imageCount = 25 =>
                  /\ out.subdivisions = 7
                  /\ Len(out.vertices) = 3 * 120
                  /\ out.glTF.accessors[1].count = 120

C12_Witness ==
    /\ Returned("sphere")
    /\ imageCount = 25
    /\ out.subdivisions = 7
    /\ out.glTF.accessors[1].count = 120

\* C13: generateVertexColors(vertexCount, imageColors) returns vertexCount RGBA
\* tuples; with a non-empty list tuple i is (r, g, b, 1.0) of
\* imageColors[i mod length], with an empty list every tuple is
\* (0.8, 0.8, 0.8, 1.0).  vertexCount is the argument the caller passes,
\* vertices.length.
C13_VertexColors ==
    Returned("sphere") =>
        LET vertexCount == Len(out.vertices)
            Expected(i) ==
                IF colors = <<>> THEN <<Lit(4, 5), Lit(4, 5), Lit(4, 5)>>
                ELSE colors[(i % Len(colors)) + 1]
        IN  /\ Len(out.vertexColors) = 4 * vertexCount
            /\ \A i \in 0..(vertexCount - 1) :
                  /\ out.vertexColors[4 * i + 1] = Expected(i)[1]
                  /\ out.vertexColors[4 * i + 2] = Expected(i)[2]
                  /\ out.vertexColors[4 * i + 3] = Expected(i)[3]
                  /\ out.vertexColors[4 * i + 4] = Lit(1, 1)

C13_Witness ==
    /\ Returned("sphere")
    /\ Len(colors) = 2
    /\ colors[1] # colors[2]
    /\ out.vertexColors[1] = colors[1][1]
    /\ out.vertexColors[5] = colors[2][1]
    /\ out.vertexColors[9] = colors[1][1]

\* C14: the cube tables hold 8 vertices (24 position components), 36 indices
\* each in 0..7, and 24 normal entries of 3 components (72 normal components),
\* matching the counts 8, 36 and 24 the cube's accessors declare.
C14_CubeTables ==
    Returned("cube") =>
        /\ Len(out.vertices) = 24
        /\ Len(out.indices) = 36
        /\ \A n \in 1..Len(out.indices) : out.indices[n] \in 0..7
        /\ Len(out.normals) = 72
        /\ out.glTF.accessors[1].count * 3 = Len(out.vertices)
        /\ out.glTF.accessors[2].count = Len(out.indices)
        /\ out.glTF.accessors[3].count * 3 = Len(out.normals)

\* C15: scene-description referential integrity, in both encoders: one scene,
\* one node, one mesh, one primitive; every index names an existing element;
\* the primitive's indices name the SCALAR accessor whose view has target
\* 34963; POSITION, NORMAL and COLOR_0 name VEC3, VEC3 and VEC4 accessors
\* whose views have target 34962.
C15_SceneReferences ==
    pc = "returned" =>
        LET g == out.glTF
            prim == g.meshes[1].primitives[1]
            at == prim.attributes
            Acc(a) == g.accessors[a + 1]
            View(a) == g.bufferViews[Acc(a).bufferView + 1]
            IsAttribute(a, type) ==
                /\ a \in 0..(Len(g.accessors) - 1)
                /\ Acc(a).type = type
                /\ View(a).target = 34962
        IN  /\ Len(g.scenes) = 1 /\ Len(g.nodes) = 1
            /\ Len(g.meshes) = 1 /\ Len(g.meshes[1].primitives) = 1
            /\ g.scene \in 0..(Len(g.scenes) - 1)
            /\ Len(g.scenes[1].nodes) = 1
            /\ \A n \in 1..Len(g.scenes[1].nodes) :
                  g.scenes[1].nodes[n] \in 0..(Len(g.nodes) - 1)
            /\ g.nodes[1].mesh \in 0..(Len(g.meshes) - 1)
            /\ prim.material \in 0..(Len(g.materials) - 1)
            /\ \A a \in 1..Len(g.accessors) :
                  g.accessors[a].bufferView \in 0..(Len(g.bufferViews) - 1)
            /\ \A v \in 1..Len(g.bufferViews) :
                  g.bufferViews[v].buffer \in 0..(Len(g.buffers) - 1)
            /\ prim.indices \in 0..(Len(g.accessors) - 1)
            /\ Acc(prim.indices).type = "SCALAR"
            /\ View(prim.indices).target = 34963
            /\ IsAttribute(at.POSITION, "VEC3")
            /\ IsAttribute(at.NORMAL, "VEC3")
            /\ "COLOR_0" \in DOMAIN at => IsAttribute(at.COLOR_0, "VEC4")
            /\ shape = "sphere" => "COLOR_0" \in DOMAIN at

C15_Witness ==
    /\ Returned("cube")
    /\ out.glTF.meshes[1].primitives[1].indices = 1
    /\ out.glTF.meshes[1].primitives[1].attributes.NORMAL = 2
    /\ out.glTF.bufferViews[2].target = 34963

(***************************************************************************)
(* Reading a call of convertPhotogrammetry.                                *)
(***************************************************************************)
\* the files passed the validation
ValidRequest == ValidationError(files) = ""

\* extractImageColors has run its loop over every file
ExtractionDone == ValidRequest /\ fileIdx = Len(files) + 1

IsPrefix(a, b) == Len(a) <= Len(b) /\ SubSeq(b, 1, Len(a)) = a

\* the color the file stands for: its pixel, or the gray of the catch block
ColorOfFile(file) ==
    IF file.decoding = "decoded" THEN PixelColor(file.pixel) ELSE FallbackColor

\* the float term c lies in [0, 1]
InUnitInterval(c) == c.p[1] >= 0 /\ c.p[1] <= c.p[2]

\* C16: for a valid request (at least 8 image files, format GLB) the bytes
\* convertPhotogrammetry resolves with are the container that
\* createPhotogrammetryModel assembled from the sampled colors and the image
\* count.
C16_ReturnedBytesAreContainer ==
    (settled.state = "resolved" /\ ToUpperCase(outputFormat) = "GLB") =>
        /\ glbArrayBuffer = createPhotogrammetryModel(extracted, Len(files)).glbFile
        /\ settled.blob.data = glbArrayBuffer

\* C17: the values passed to onProgress during one call lie in 0..100 and
\* never decrease, and on success the last one is 100.
C17_ProgressMonotonic ==
    /\ \A i \in DOMAIN progressLog : progressLog[i] \in 0..100
    /\ \A i, j \in DOMAIN progressLog : i < j => progressLog[i] <= progressLog[j]
    /\ settled.state = "resolved" => progressLog[Len(progressLog)] = 100

\* a request of at least 8 images whose format is, upper-cased, none of the
\* supported ones, once the call has started
UnsupportedRequest ==
    /\ ValidRequest
    /\ ~ Includes(SupportedFormats, ToUpperCase(outputFormat))
    /\ cpPc # "call"

\* the outcome of an unsupported request is that of the GLB export: the model
\* is generated for "GLB", a success is the GLB Blob, and the only failure is
\* that of the GLB exporter
FallbackOutcome ==
    /\ genFormat = GenerateFormat("GLB")
    /\ settled.state = "resolved" => settled.blob = exportAsGLB.blob
    /\ settled.state = "rejected" =>
          settled.message = ExportError("GLB", exportAsGLB.error)
    /\ cpPc = "done" => settled.state # "pending"

\* C18 as stated: an unsupported format does not fail the call, which
\* proceeds exactly as a GLB request (the same progress reports included) and
\* resolves with the GLB result.
C18_ProceedsExactlyAsGLB ==
    UnsupportedRequest =>
        /\ FallbackOutcome
        /\ IsPrefix(StartProgress("GLB"), progressLog)

\* C18, amended: an unsupported format does not fail the call, which
\* generates and exports as a GLB request does and resolves with the GLB
\* result; its progress reports are those of a GLB request without the 40.
C18_FallsBackToGLB ==
    UnsupportedRequest =>
        /\ FallbackOutcome
        /\ IsPrefix(SelectSeq(StartProgress("GLB"), LAMBDA x : x # 40), progressLog)

C18_Witness ==
    /\ UnsupportedRequest
    /\ outputFormat = "PLY"
    /\ settled.state = "resolved"
    /\ settled.blob.type = "model/gltf-binary"
    /\ progressLog = <<10, 20, 50, 70, 85, 50, 100>>

\* C19: extractImageColors returns exactly one RGB triple per file, in the
\* order of the files, on every path of the loop body (decoded, failed to
\* load, no 2D context), each component in [0, 1].
C19_OneColorPerFile ==
    ExtractionDone =>
        /\ Len(extracted) = Len(files)
        /\ \A i \in DOMAIN extracted :
              /\ i <= Len(files) => extracted[i] = ColorOfFile(files[i])
              /\ Len(extracted[i]) = 3
              /\ \A c \in 1..3 : InUnitInterval(extracted[i][c])

\* C20: every failure of convertPhotogrammetry (validation, extraction and
\* model generation, export) rejects with an Error whose message begins with
\* "Photogrammetry conversion failed: ".
C20_FailuresWrapped ==
    settled.state = "rejected" =>
        StartsWith(settled.message, "Photogrammetry conversion failed: ")

(***************************************************************************)
(* Reading the hook useConversion.                                         *)
(***************************************************************************)
IsNull(field) == field.is = "null"

\* the service a call awaits has settled
ServiceSettled(call) == call.svc.state # "pending"

\* isConverting false, progress 0, error, result and resultUrl null
IdleState(state) ==
    /\ ~ state.isConverting
    /\ state.progress = 0
    /\ IsNull(state.error) /\ IsNull(state.result) /\ IsNull(state.resultUrl)

\* the step made call c return
JustReturned(c) ==
    /\ calls'[c].ret.state # "pending"
    /\ c \in DOMAIN calls => calls[c].ret.state = "pending"

\* C21: convertImage2DTo3D, called with an image file and an output format,
\* resolves with a Blob of a generated 3D model.
C21_Image2DTo3DResolves ==
    \A c \in DOMAIN calls :
        ( /\ calls[c].fn = "convert2DTo3D"
          /\ calls[c].method = "auto"
          /\ Len(calls[c].files) > 0
          /\ StartsWith(calls[c].files[1].type, "image/")
          /\ ServiceSettled(calls[c]) )
        => /\ calls[c].svc.state = "resolved"
           /\ calls[c].svc.blob # NoBlob

Triangles(indices) ==
    { <<indices[3 * t - 2], indices[3 * t - 1], indices[3 * t]>> :
        t \in 1..(Len(indices) \div 3) }

\* the number of corners of triangle tri that lie on ring r, a ring having
\* sectors + 1 vertices
CornersOnRing(tri, r, sectors) ==
    Cardinality({n \in 1..3 : tri[n] \div (sectors + 1) = r})

\* C24: for every quad (i, j) of the sphere, with k1 = i*(sectors+1)+j and
\* k2 = k1+sectors+1, the triangle (k1, k2, k1+1) is emitted iff i # 0 and
\* the triangle (k1+1, k2, k2+1) iff i # rings-1; the index count is
\* 6*sectors*(rings-1), and no emitted triangle has two corners on the same
\* pole ring.
C24_PoleHandling ==
    Returned("sphere") =>
        LET rings == out.subdivisions
            sectors == out.subdivisions * 2
            tris == Triangles(out.indices)
        IN  /\ \A i \in 0..(rings - 1), j \in 0..(sectors - 1) :
                  LET k1 == i * (sectors + 1) + j
                      k2 == k1 + sectors + 1
                  IN  /\ (<<k1, k2, k1 + 1>> \in tris) <=> (i # 0)
                      /\ (<<k1 + 1, k2, k2 + 1>> \in tris) <=> (i # rings - 1)
            /\ Len(out.indices) = 6 * sectors * (rings - 1)
            /\ \A tri \in tris :
                  /\ CornersOnRing(tri, 0, sectors) <= 1
                  /\ CornersOnRing(tri, rings, sectors) <= 1

C24_Witness ==
    /\ Returned("sphere")
    /\ out.subdivisions = 8
    /\ <<1, 17, 18>> \in Triangles(out.indices)
    /\ <<0, 17, 1>> \notin Triangles(out.indices)
    /\ <<119, 136, 120>> \in Triangles(out.indices)
    /\ <<120, 136, 137>> \notin Triangles(out.indices)

\* fewer than 8 files, or a file whose MIME type does not start with "image/"
InvalidFiles ==
    \/ Len(files) < 8
    \/ \E i \in DOMAIN files : ~ StartsWith(files[i].type, "image/")

\* C25: called with fewer than 8 files, or with a file whose MIME type does
\* not start with "image/", convertPhotogrammetry rejects with an Error; no
\* color is extracted, no model generated, nothing exported, and the only
\* progress value reported is 10.
C25_ValidationRejects ==
    (InvalidFiles /\ cpPc # "call") =>
        /\ cpPc = "done"
        /\ settled.state = "rejected"
        /\ settled.message # ""
        /\ fileIdx = 0 /\ extracted = <<>>
        /\ glbArrayBuffer = <<>>
        /\ genFormat = ""
        /\ progressLog = <<10>>

C25_Witness ==
    /\ Len(files) = 8
    /\ files[3].type = "text/plain"
    /\ cpPc = "done"
    /\ settled.state = "rejected"
    /\ settled.message = "Photogrammetry conversion failed: All files must be valid image files"
    /\ progressLog = <<10>>

\* C26: in every reachable state of the hook, error and result are never
\* both non-null, and whenever result is non-null, isConverting is false and
\* progress is 100.
C26_StateInvariant ==
    /\ ~ (hookState.error.is = "value" /\ hookState.result.is = "value")
    /\ hookState.result.is = "value" =>
          /\ ~ hookState.isConverting
          /\ hookState.progress = 100

\* C27: after reset() the state stays idle until the next call of
\* convert3DTo2D or convert2DTo3D: a step that makes no new call leaves an
\* idle state idle.
C27_IdleAfterReset ==
    [][(IdleState(hookState) /\ Len(calls') = Len(calls)) => IdleState(hookState')]_vars

HoldsSupportedFile == pvMounted /\ CreatesUrl(pvFile)

C29_LoadingEnds ==
    (HoldsSupportedFile /\ pvCanvas = "created")
        ~> (~ pvState.isLoading \/ ~ HoldsSupportedFile)

\* C30: for every angleCount n >= 1 the grid of the sprite sheet has
\* gridCols = ceil(sqrt(n)) and gridRows = ceil(n / gridCols), so that
\* gridCols * gridRows >= n, and each view i in 0..n-1 is drawn into the cell
\* (i mod gridCols, floor(i / gridCols)), which lies inside the sheet and
\* differs from the cell of every other view.
C30_SpriteGrid ==
    sheetPc # "idle" =>
       LET n == sheetAngleCount
           gridCols == sheetGrid.cols
           gridRows == sheetGrid.rows
       IN  /\ gridCols >= 1 /\ gridRows >= 1
           /\ (gridCols - 1) * (gridCols - 1) < n /\ n <= gridCols * gridCols
           /\ (gridRows - 1) * gridCols < n /\ n <= gridRows * gridCols
           /\ Len(sheetCells) = sheetI /\ sheetI <= n
           /\ sheetPc = "resolved" => sheetI = n
           /\ \A k \in DOMAIN sheetCells :
                 /\ sheetCells[k].col = (k - 1) % gridCols
                 /\ sheetCells[k].row = (k - 1) \div gridCols
                 /\ sheetCells[k].col \in 0..(gridCols - 1)
                 /\ sheetCells[k].row \in 0..(gridRows - 1)
           /\ \A k, l \in DOMAIN sheetCells : k # l => sheetCells[k] # sheetCells[l]

C30_Witness ==
    /\ sheetPc = "resolved"
    /\ sheetAngleCount = 32
    /\ sheetGrid = [cols |-> 6, rows |-> 6]
    /\ Len(sheetCells) = 32
    /\ sheetCells[32] = [col |-> 1, row |-> 5]

====
